---------------------------- MODULE Spec2Model ----------------------------
(***************************************************************************)
(* A model of ladybug_rhino: the solid-solid intersection loops and their  *)
(* bounding-box pre-filter (intersect.py), the parallel ray/mesh-face      *)
(* intersection (intersect.py), the IronPython settings-file patch         *)
(* (pythonpath.py), the point / quad-face conversions (togeometry.py,      *)
(* fromgeometry.py, planarize.py, bakegeometry.py), the mesh / ray         *)
(* intersection matrix and its worker groups (intersect.py), the port and  *)
(* version checks of the component updater (versioning/diff.py), the       *)
(* cooling design day prompt (command.py), the project information         *)
(* (download.py), the site-packages folder (pythonpath.py, cli), the       *)
(* planar brep of a face and the functions that join such breps            *)
(* (fromgeometry.py) and the .pth files of the script editor               *)
(* (pythonpath.py).                                                        *)
(*                                                                         *)
(* Lengths are integers in units of the model tolerance.  Python indices   *)
(* are kept 0-based, as in the source.                                     *)
(***************************************************************************)
EXTENDS Integers, Sequences, FiniteSets, TLC

VARIABLES
    fn,           \* which function runs: "seq" (intersect_solids), "par" (intersect_solids_parallel), "idle"
    bound_boxes,  \* bound_boxes argument: index -> bounding box
    cuts,         \* host geometry: <<i, j>> in cuts iff solid i .Split(solid j) yields pieces
    int_solids,   \* int_solids list: index -> solid (its id and the seams it has received)
    si, sj,       \* intersect_solids: the loop indices i and j
    groups,       \* intersect_solids_parallel: the index ranges handed to Parallel.ForEach
    wpos,         \* per worker: its position (index, loop, j) in intersect_each_solid
    reads,        \* per worker: the indices of int_solids it has read
    writes,       \* per worker: the indices of int_solids it has assigned
    calls,        \* the <<i, j>> for which intersect_solid(solid i, solid j) was called
    skipped,      \* the <<i, j>> the bounding-box check skipped
    cpu_count,    \* the cpu_count argument; 0 stands for None
    py2           \* TRUE when the interpreter is IronPython 2.7 (int / int floors)

VARIABLES
    ray_seen,     \* intersect_rays_with_mesh_faces: <<i, j>> -> ang_mtx[i][j] and the ray is not blocked by the context
    face_ids,     \* host geometry: <<i, j>> -> the faces of the mesh that rays[i][j] strikes
    face_int,     \* face_int list: face index -> the list of ray indices appended to it
    appenders     \* face index -> the workers that have appended to face_int[face]

solidVars == <<bound_boxes, cuts, int_solids, si, sj, reads, writes, calls, skipped>>

runVars == <<fn, groups, wpos, cpu_count, py2>>

VARIABLES
    fs,           \* the file system: file name -> [exists, lines]
    before,       \* fs as it was when the last call of iron_python_search_path_windows began
    hist,         \* the calls made so far, as [pkg, dest, raised]
    ret,          \* what the last call returned (NoRet when it raised)
    written,      \* the files the last call wrote
    shape         \* the kind of settings file the run began with

VARIABLES
    pt,           \* a ladybug Point3D: [x, y, z], each a number with its Python type
    host_pt,      \* the Rhino Point3d made from it: [X, Y, Z]
    back_pt,      \* the Point3D made from the Rhino point
    gstep,        \* how far the conversion went: "start", "host", "back"
    quad,         \* a quad mesh face: its four vertex indices, in order
    planar,       \* whether the planarity test of the quad passes
    area0,        \* whether the quad has no area
    via,          \* the function that converted the quad ("none" before)
    faces_out     \* the faces (vertex tuples) that function produced for the quad

rayVars == <<ray_seen, face_ids, face_int, appenders>>

geomVars == <<pt, host_pt, back_pt, gstep, quad, planar, area0, via, faces_out>>

pathVars == <<fs, before, hist, ret, written, shape>>

VARIABLES
    n_points,             \* intersect_mesh_rays: len(points)
    n_vectors,            \* len(vectors)
    normals,              \* whether normals are given (then one per point)
    parallel,             \* the parallel argument
    intersection_matrix,  \* the matrix being filled: per point [filled, row]
    visited,              \* per worker: the point indices it ran intersect_point for, in order
    mesh_state            \* "called", "running", "raised" (an exception left the call), "returned"

meshVars == <<n_points, n_vectors, normals, parallel, intersection_matrix,
              visited, mesh_state>>

VARIABLES
    user_object,  \* the user object: [Input, Output], the ports of each as a sequence
    component,    \* the component it is compared with
    ports_ret,    \* what compare_ports returned: "True", "False" ("none" when not called)
    changed_ret   \* what input_output_changed returned ("none" before)

portVars == <<user_object, component, ports_ret, changed_ret>>

VARIABLES
    current_version,  \* the installed version: [none, parts], parts being the text split at the dots
    new_version,      \* the version of the new component, likewise
    change_type,      \* the change tag
    vres              \* how validate_version ended: "True", "None", "ValueError", "AssertionError"

versionVars == <<current_version, new_version, change_type, vres>>

VARIABLES
    url_path,      \* the text the user gave: "", "http", "name", "file.ddy", "file.epw", "file.stat", "file.txt" ("unset" before)
    epw_there,     \* whether an EPW file is in the default folder under the name given
    stat_day,      \* whether the STAT file holds the 0.4% annual cooling design day
    stat_optical,  \* whether the STAT file holds monthly optical depths
    ddy_days,      \* how many design days of the DDY file have '.4%' in the name
    opt_clicks,    \* how many times the user changed an option at the prompt
    lbt_url,       \* sc.sticky['lbt_url']
    dd_ret         \* how the call ended, [kind, design_day, wea]; kind is "prompt" while the user is asked

ddayVars == <<url_path, epw_there, stat_day, stat_optical, ddy_days,
              opt_clicks, lbt_url, dd_ret>>

VARIABLES
    project_info,  \* the ProjectInfo read from the JSON: [weather_urls, location, ashrae_climate_zone]
    epw_cached,    \* whether the EPW file is already in the default folder
    stat_there,    \* whether a STAT file is next to the EPW file
    stat_zone,     \* whether the STAT file holds a climate zone
    downloaded,    \* whether the call downloaded and unzipped the weather file
    pi_ret         \* what the call returned: [kind, location, zone, folder]; kind is "called" before

pinfoVars == <<project_info, epw_cached, stat_there, stat_zone, downloaded,
               pi_ret>>

VARIABLES
    os_name,          \* os.name: "nt" or "posix"
    py37_there,       \* whether <python>/lib/python3.7 is a directory
    dir_there,        \* whether the site-packages folder is a directory
    command,          \* the CLI command that runs: "setup-user-environment" or "set-python-search"
    cli_package_dir,  \* the --python-package-dir of the command: [none, path]
    settings_count,   \* how many settings files the search path is to be set in
    pkg_ret,          \* what create_python_package_dir returned, as [none, path]; path is "unset" before it returns
    cli_out           \* how far the command is: "start", then "set", "skipped" or "failed"

pkgdirVars == <<os_name, py37_there, dir_there, command, cli_package_dir,
                settings_count, pkg_ret, cli_out>>

VARIABLES
    n_holes,      \* from_face3d: the number of holes of the face
    first_ok,     \* host: whether CreatePlanarBreps gives a brep at the model tolerance
    loose_ok,     \* host: whether CreatePlanarBreps gives a brep at the tolerance 1e6
    face_pc,      \* where from_face3d is: "start", "retry", "holes", "returned"
    attempts,     \* the tolerances CreatePlanarBreps was called with, in order
    loops_added,  \* how many inner loops were added to the brep
    face_ret      \* what from_face3d returned: "brep" or "None" ("unset" before)

brepVars == <<n_holes, first_ok, loose_ok, face_pc, attempts, loops_added,
              face_ret>>

VARIABLES
    pth_dir,      \* script_editor_search_path: python_dir, a text as the sequence of its characters
    rhino8,       \* whether Rhino 8 is among the installed Rhino versions
    prog_folder,  \* os.getenv('PROGRAMDATA'): "none", "readonly" or "writable"
    pth,          \* the .pth files: name -> [exists, lines, nl], nl telling that the last line ends with a newline
    prev_pth,     \* the .pth files as they were when the last call began
    reported,     \* installed_pth_files, what the last call returned
    pth_runs      \* how many times script_editor_search_path has run

pthVars == <<pth_dir, rhino8, prog_folder, pth, prev_pth, reported, pth_runs>>

VARIABLES
    caller,     \* which of the functions runs: "from_polyface3d", "from_face3ds_to_joined_brep" or "from_face3d_to_solid"
    in_faces,   \* the faces given: per face [first_ok, loose_ok], what the host makes of its boundary
    rh_faces,   \* what from_face3d returned for the faces translated so far: "brep" or "None"
    join_pc,    \* where the function is: "translate", then "raised" or "returned"
    host_call,  \* the host call made with the translated faces: [name, args], name "none" before
    none_attr,  \* whether an attribute of None was read
    join_ret    \* what the function returned: "brep", "breps" or "None" ("unset" before)

joinVars == <<caller, in_faces, rh_faces, join_pc, host_call, none_attr,
              join_ret>>

\* the variables of the functions modelled further down
laterVars == <<meshVars, portVars, versionVars, ddayVars, pinfoVars,
              pkgdirVars, brepVars, pthVars, joinVars>>

\* what the actions of intersect_mesh_rays leave alone
othersMesh == <<solidVars, rayVars, pathVars, geomVars, portVars,
                versionVars, ddayVars, pinfoVars, pkgdirVars, brepVars,
                pthVars, joinVars>>

\* what the actions of input_output_changed leave alone
othersPort == <<runVars, solidVars, rayVars, pathVars, geomVars, meshVars,
                versionVars, ddayVars, pinfoVars, pkgdirVars, brepVars,
                pthVars, joinVars>>

\* what the actions of validate_version leave alone
othersVersion == <<runVars, solidVars, rayVars, pathVars, geomVars, meshVars,
                   portVars, ddayVars, pinfoVars, pkgdirVars, brepVars,
                   pthVars, joinVars>>

\* what the actions of retrieve_cooling_design_day_input leave alone
othersDday == <<runVars, solidVars, rayVars, pathVars, geomVars, meshVars,
                portVars, versionVars, pinfoVars, pkgdirVars, brepVars,
                pthVars, joinVars>>

\* what the actions of extract_project_info leave alone
othersPinfo == <<runVars, solidVars, rayVars, pathVars, geomVars, meshVars,
                 portVars, versionVars, ddayVars, pkgdirVars, brepVars,
                 pthVars, joinVars>>

\* what the actions of create_python_package_dir leave alone
othersPkgdir == <<runVars, solidVars, rayVars, pathVars, geomVars, meshVars,
                  portVars, versionVars, ddayVars, pinfoVars, brepVars,
                  pthVars, joinVars>>

\* what the actions of from_face3d leave alone
othersBrep == <<runVars, solidVars, rayVars, pathVars, geomVars, meshVars,
                portVars, versionVars, ddayVars, pinfoVars, pkgdirVars,
                pthVars, joinVars>>

\* what the actions of script_editor_search_path leave alone
othersPth == <<runVars, solidVars, rayVars, pathVars, geomVars, meshVars,
               portVars, versionVars, ddayVars, pinfoVars, pkgdirVars,
               brepVars, joinVars>>

\* what the actions of from_polyface3d, from_face3ds_to_joined_brep and from_face3d_to_solid leave alone
othersJoin == <<runVars, solidVars, rayVars, pathVars, geomVars, meshVars,
                portVars, versionVars, ddayVars, pinfoVars, pkgdirVars,
                brepVars, pthVars>>

vars == <<runVars, solidVars, rayVars, pathVars, geomVars, laterVars>>

-----------------------------------------------------------------------------
(* Bounds of the model *)

NSolids == 3     \* number of solids handed to the intersection functions
MaxShift == 3    \* largest displacement of a solid from the origin, per axis
MaxCpu == 2      \* largest cpu_count argument
NRayLists == 2   \* len(rays): the number of ray lists handed to intersect_rays_with_mesh_faces
RaysPerList == 2 \* the number of rays in each list
NFaces == 2      \* mesh.Faces.Count
MaxPaths == 2    \* most paths in the SearchPaths entry of an initial settings file
MaxCalls == 2    \* most calls of iron_python_search_path_windows in a run
MaxCoord == 1    \* largest absolute value of a point coordinate
NVerts == 4      \* number of vertices of the mesh a quad face is taken from
MaxPoints == 3   \* most points given to intersect_mesh_rays
MaxVecs == 2     \* most vectors given to intersect_mesh_rays
MaxItems == 6    \* most items for which the worker groups are computed on their own
MaxPorts == 1    \* most input ports, and most output ports, of a component
MaxVer == 1      \* largest number in an installed version
MaxClicks == 2   \* most option changes of the user at one prompt
MaxDays == 2     \* most '.4%' design days in a DDY file
MaxSettings == 2 \* most settings files the search path is set in
MaxHoles == 5    \* most holes of a face given to from_face3d
MaxLines == 2    \* most lines of a .pth file before the first run
MaxPthRuns == 2  \* most runs of script_editor_search_path
MaxJoinFaces == 3   \* faces of a polyface, or given to from_face3ds_to_joined_brep

(* config.py: the model tolerance, the unit of length of this model *)
tolerance == 1

Axes == 1..3     \* X, Y, Z

Abs(n) == IF n < 0 THEN 0 - n ELSE n
Min2(a, b) == IF a < b THEN a ELSE b
Max2(a, b) == IF a > b THEN a ELSE b

-----------------------------------------------------------------------------
(* intersect.py: overlapping_bounding_boxes.  Rhino's BoundingBox.Center is *)
(* (Min + Max) / 2, so every gap is computed here times two.               *)

\* twice x_gap_btwn_box (resp. y, z): dist_btwn - 0.5 * bb1_width - 0.5 * bb2_width
Gap2(bound_box1, bound_box2, a) ==
    LET bb1_width == bound_box1.Max[a] - bound_box1.Min[a]
        bb2_width == bound_box2.Max[a] - bound_box2.Min[a]
        dist_btwn2 == Abs((bound_box1.Min[a] + bound_box1.Max[a])
                          - (bound_box2.Min[a] + bound_box2.Max[a]))
    IN  dist_btwn2 - bb1_width - bb2_width

\* overlapping_bounding_boxes without its check of the Z axis
overlapping_bounding_boxes_noZ(bound_box1, bound_box2) ==
    IF \/ Gap2(bound_box1, bound_box2, 1) > 2 * tolerance
       \/ Gap2(bound_box1, bound_box2, 2) > 2 * tolerance
    THEN FALSE
    ELSE TRUE

overlapping_bounding_boxes(bound_box1, bound_box2) ==
    IF \/ Gap2(bound_box1, bound_box2, 1) > 2 * tolerance
       \/ Gap2(bound_box1, bound_box2, 2) > 2 * tolerance
       \/ Gap2(bound_box1, bound_box2, 3) > 2 * tolerance
    THEN FALSE
    ELSE TRUE

-----------------------------------------------------------------------------
(* intersect.py: intersect_solid.  Brep.Split is the host's: whether it     *)
(* returns pieces for a pair is an input of the model (cuts).  A solid is   *)
(* its id and the set of solids whose seams it carries.                    *)

HostSplit(solid, other_solid) == <<solid.id, other_solid.id>> \in cuts

intersect_solid(solid, other_solid) ==
    IF HostSplit(solid, other_solid)       \* len(temp_brep) != 0
    THEN [solid |-> [solid EXCEPT !.seams = @ \cup {other_solid.id}],
          intersection_exists |-> TRUE]
    ELSE [solid |-> solid, intersection_exists |-> FALSE]

-----------------------------------------------------------------------------
(* intersect.py: intersect_solids, one action per iteration of the inner   *)
(* loop.  si, sj are i and j; the loops end at si = NSolids.               *)

\* the next (i, j) at which the inner loop body runs, from (i, j) on
RECURSIVE SeqNorm(_, _)
SeqNorm(i, j) ==
    IF i >= NSolids THEN <<NSolids, 0>>
    ELSE IF j < NSolids - (i + 1) THEN <<i, j>>     \* enumerate(bound_boxes[i + 1:])
    ELSE SeqNorm(i + 1, 0)

SeqBody(i, k) ==
    IF ~overlapping_bounding_boxes(bound_boxes[i], bound_boxes[k])
    THEN /\ skipped' = skipped \cup {<<i, k>>}
         /\ UNCHANGED <<int_solids, calls>>
    ELSE LET r1 == intersect_solid(int_solids[i], int_solids[k])
             mid == [int_solids EXCEPT ![i] = r1.solid]
             r2 == intersect_solid(mid[k], mid[i])
         IN  /\ int_solids' = IF r1.intersection_exists
                              THEN [mid EXCEPT ![k] = r2.solid]
                              ELSE mid
             /\ calls' = calls \cup {<<i, k>>}
                         \cup (IF r1.intersection_exists THEN {<<k, i>>} ELSE {})
             /\ UNCHANGED skipped

SeqStep ==
    /\ fn = "seq"
    /\ si < NSolids
    /\ SeqBody(si, si + sj + 1)
    /\ LET n == SeqNorm(si, sj + 1)
       IN  si' = n[1] /\ sj' = n[2]
    /\ UNCHANGED <<fn, bound_boxes, cuts, groups, wpos, reads, writes,
                   cpu_count, py2, rayVars, pathVars, geomVars, laterVars>>

-----------------------------------------------------------------------------
(* intersect.py: intersect_solids_parallel.  Parallel.ForEach runs the     *)
(* body once per item, the runs interleaving freely; a worker is one run.  *)
(* One action per iteration of the loops of intersect_each_solid.          *)

\* int(math.ceil(solid_count / worker_count)): "/" floors two ints under
\* IronPython 2.7 and is the true division under Python 3
IPerGroup(count, worker_count, floors) ==
    IF floors THEN count \div worker_count
    ELSE (count + worker_count - 1) \div worker_count

\* the groups without the last one made to end at count
SGroups_open(count, cpu, floors) ==
    LET worker_count == Min2(cpu, count)
        i_per_group == IPerGroup(count, worker_count, floors)
        n == (count + i_per_group - 1) \div i_per_group
    IN  [g \in 1..n |-> [start |-> (g - 1) * i_per_group, stop |-> g * i_per_group]]

\* [[x, x + i_per_group] for x in range(0, count, i_per_group)], the last
\* group made to end at count
SGroups(count, cpu, floors) ==
    LET worker_count == Min2(cpu, count)
        i_per_group == IPerGroup(count, worker_count, floors)
        n == (count + i_per_group - 1) \div i_per_group
    IN  [g \in 1..n |->
            [start |-> (g - 1) * i_per_group,
             stop |-> IF g = n THEN count ELSE g * i_per_group]]

\* the items of the Parallel.ForEach, each as the index range its run covers
ParItems(count, cpu, floors) ==
    IF cpu <= 1                                   \* cpu_count is None or <= 1
    THEN [g \in 1..count |-> [start |-> g - 1, stop |-> g]]
    ELSE SGroups(count, cpu, floors)

\* the next (count, loop, j) at which a loop body of intersect_each_solid
\* runs within the range ending at stop, from (count, loop, j) on
RECURSIVE ParNorm(_, _, _, _)
ParNorm(count, loop, j, stop) ==
    IF count >= stop THEN [count |-> stop, loop |-> "done", j |-> 0]
    ELSE IF loop = "after"
         THEN IF j < NSolids - (count + 1)        \* enumerate(bound_boxes[i + 1:])
              THEN [count |-> count, loop |-> loop, j |-> j]
              ELSE ParNorm(count, "before", 0, stop)
         ELSE IF j < count                        \* enumerate(bound_boxes[:i])
              THEN [count |-> count, loop |-> loop, j |-> j]
              ELSE ParNorm(count + 1, "after", 0, stop)

\* one iteration of a loop of intersect_each_solid(i) against solid k
ParBody(w, i, k) ==
    IF ~overlapping_bounding_boxes(bound_boxes[i], bound_boxes[k])
    THEN /\ skipped' = skipped \cup {<<i, k>>}
         /\ UNCHANGED <<int_solids, calls, reads, writes>>
    ELSE LET r == intersect_solid(int_solids[i], int_solids[k])
         IN  /\ calls' = calls \cup {<<i, k>>}
             /\ reads' = [reads EXCEPT ![w] = @ \cup {i, k}]
             /\ IF r.intersection_exists
                THEN /\ int_solids' = [int_solids EXCEPT ![i] = r.solid]
                     /\ writes' = [writes EXCEPT ![w] = @ \cup {i}]
                ELSE UNCHANGED <<int_solids, writes>>
             /\ UNCHANGED skipped

ParStep(w) ==
    /\ fn = "par"
    /\ wpos[w].loop # "done"
    /\ LET i == wpos[w].count
           k == IF wpos[w].loop = "after" THEN i + wpos[w].j + 1 ELSE wpos[w].j
       IN  ParBody(w, i, k)
    /\ wpos' = [wpos EXCEPT ![w] =
                    ParNorm(@.count, @.loop, @.j + 1, groups[w].stop)]
    /\ UNCHANGED <<fn, bound_boxes, cuts, si, sj, groups, cpu_count, py2, rayVars, pathVars, geomVars, laterVars>>

-----------------------------------------------------------------------------
(* The inputs: solid k is a cube of side SolidSize(k) whose lowest corner  *)
(* is the origin moved along one axis; bound_boxes[k] is its bounding box. *)

SolidIds == 0..(NSolids - 1)

SolidSize(k) == 1 + (k % 2)

Corners ==
    {<<0, 0, 0>>} \cup
    {[a \in Axes |-> IF a = ax THEN d ELSE 0] : ax \in Axes, d \in 1..MaxShift}

BoxAt(k, corner) ==
    [Min |-> corner, Max |-> [a \in Axes |-> corner[a] + SolidSize(k)]]

\* the boxes are further apart than the tolerance along axis a
SeparatedOn(b1, b2, a) ==
    \/ b2.Min[a] - b1.Max[a] > tolerance
    \/ b1.Min[a] - b2.Max[a] > tolerance

Separated(b1, b2) == \E a \in Axes : SeparatedOn(b1, b2, a)

\* the pairs the host may find to intersect: solids whose boxes are not apart
Touching(boxes) ==
    {p \in SolidIds \X SolidIds :
        p[1] # p[2] /\ ~Separated(boxes[p[1]], boxes[p[2]])}

\* the bound_boxes arguments of the model: solid 0 at the origin
BoxLayouts ==
    {b \in [SolidIds -> UNION {{BoxAt(k, c) : c \in Corners} : k \in SolidIds}] :
        /\ b[0] = BoxAt(0, <<0, 0, 0>>)
        /\ \A k \in SolidIds : \E c \in Corners : b[k] = BoxAt(k, c)}

\* the state when the loops (or the Parallel.ForEach) begin
StartRun ==
    /\ fn \in {"seq", "par"}
    /\ int_solids = [k \in SolidIds |-> [id |-> k, seams |-> {}]]
    /\ cpu_count \in IF fn = "par" THEN 0..MaxCpu ELSE {0}
    /\ py2 \in IF cpu_count > 1 THEN BOOLEAN ELSE {FALSE}
    /\ groups = IF fn = "par" THEN ParItems(NSolids, cpu_count, py2) ELSE << >>
    /\ wpos = [w \in DOMAIN groups |->
                  ParNorm(groups[w].start, "after", 0, groups[w].stop)]
    /\ reads = [w \in DOMAIN groups |-> {}]
    /\ writes = [w \in DOMAIN groups |-> {}]
    /\ LET n == SeqNorm(0, 0) IN si = n[1] /\ sj = n[2]
    /\ calls = {}
    /\ skipped = {}

NoRet == "none"

\* intersect_mesh_rays is not running
MeshIdle ==
    /\ n_points = 0
    /\ n_vectors = 0
    /\ normals = FALSE
    /\ parallel = TRUE
    /\ intersection_matrix = << >>
    /\ visited = << >>
    /\ mesh_state = "idle"

\* input_output_changed is not running
PortsIdle ==
    /\ user_object = [Input |-> << >>, Output |-> << >>]
    /\ component = [Input |-> << >>, Output |-> << >>]
    /\ ports_ret = "none"
    /\ changed_ret = "none"

\* validate_version is not running
VersionIdle ==
    /\ current_version = [none |-> TRUE, parts |-> << >>]
    /\ new_version = [none |-> TRUE, parts |-> << >>]
    /\ change_type = "ignore"
    /\ vres = "idle"

\* retrieve_cooling_design_day_input is not running
DesignDayIdle ==
    /\ url_path = "unset"
    /\ epw_there = FALSE
    /\ stat_day = FALSE
    /\ stat_optical = FALSE
    /\ ddy_days = 0
    /\ opt_clicks = 0
    /\ lbt_url = "unset"
    /\ dd_ret = [kind |-> "idle", design_day |-> "None", wea |-> "None"]

\* extract_project_info is not running
ProjectInfoIdle ==
    /\ project_info = [weather_urls |-> "absent", location |-> "absent", ashrae_climate_zone |-> "absent"]
    /\ epw_cached = FALSE
    /\ stat_there = FALSE
    /\ stat_zone = FALSE
    /\ downloaded = FALSE
    /\ pi_ret = [kind |-> "idle", location |-> "", zone |-> "", folder |-> ""]

\* create_python_package_dir is not running
PackageDirIdle ==
    /\ os_name = "nt"
    /\ py37_there = FALSE
    /\ dir_there = FALSE
    /\ command = "none"
    /\ cli_package_dir = [none |-> TRUE, path |-> ""]
    /\ settings_count = 0
    /\ pkg_ret = [none |-> TRUE, path |-> "unset"]
    /\ cli_out = "idle"

\* from_face3d is not running
FaceIdle ==
    /\ n_holes = 0
    /\ first_ok = TRUE
    /\ loose_ok = TRUE
    /\ face_pc = "idle"
    /\ attempts = << >>
    /\ loops_added = 0
    /\ face_ret = "unset"

\* script_editor_search_path is not running
PthIdle ==
    /\ pth_dir = << >>
    /\ rhino8 = FALSE
    /\ prog_folder = "none"
    /\ pth = << >>
    /\ prev_pth = << >>
    /\ reported = << >>
    /\ pth_runs = 0

\* from_polyface3d, from_face3ds_to_joined_brep and from_face3d_to_solid are not running
JoinIdle ==
    /\ caller = "none"
    /\ in_faces = << >>
    /\ rh_faces = << >>
    /\ join_pc = "idle"
    /\ host_call = [name |-> "none", args |-> << >>]
    /\ none_attr = FALSE
    /\ join_ret = "unset"

\* none of the functions modelled further down is running
LaterIdle ==
    /\ MeshIdle
    /\ PortsIdle
    /\ VersionIdle
    /\ DesignDayIdle
    /\ ProjectInfoIdle
    /\ PackageDirIdle
    /\ FaceIdle
    /\ PthIdle
    /\ JoinIdle

\* A Python number: its type and its value.  The value is big * 2^53 + num,
\* so that the integers around 2^53, where a double stops holding every
\* integer, are values of the model.
Num(big, n, kind) == [big |-> big, num |-> n, kind |-> kind]

Zero(kind) == Num(0, 0, kind)

\* no point or quad is being converted
GeomIdle ==
    /\ pt = [x |-> Zero("int"), y |-> Zero("int"), z |-> Zero("int")]
    /\ host_pt = [X |-> Zero("float"), Y |-> Zero("float"), Z |-> Zero("float")]
    /\ back_pt = pt
    /\ gstep = "idle"
    /\ quad = << >>
    /\ planar = TRUE
    /\ area0 = FALSE
    /\ via = "none"
    /\ faces_out = << >>

\* the settings patch is not running
PathIdle ==
    /\ fs = << >>
    /\ before = << >>
    /\ hist = << >>
    /\ ret = NoRet
    /\ written = {}
    /\ shape = "idle"

\* the ray intersection is not running
RaysIdle ==
    /\ ray_seen = << >>
    /\ face_ids = << >>
    /\ face_int = << >>
    /\ appenders = << >>

\* any answer of the host's Split on the pairs that can touch
InitSolids ==
    /\ bound_boxes \in BoxLayouts
    /\ cuts \in SUBSET Touching(bound_boxes)
    /\ StartRun
    /\ RaysIdle
    /\ PathIdle
    /\ GeomIdle
    /\ LaterIdle

\* the host's Split cuts no pair, or every touching pair
InitBoxes ==
    /\ bound_boxes \in BoxLayouts
    /\ cuts \in {{}, Touching(bound_boxes)}
    /\ StartRun
    /\ RaysIdle
    /\ PathIdle
    /\ GeomIdle
    /\ LaterIdle

NextSolids ==
    \/ SeqStep
    \/ \E w \in DOMAIN groups : ParStep(w)

SpecSolids == InitSolids /\ [][NextSolids]_vars

SpecBoxes == InitBoxes /\ [][NextSolids]_vars

-----------------------------------------------------------------------------
(* The claims on the solid intersection functions *)

RunDone ==
    \/ fn = "seq" /\ si = NSolids
    \/ fn = "par" /\ \A w \in DOMAIN groups : wpos[w].loop = "done"

\* C2: while the workers of intersect_solids_parallel run, no worker reads an
\* element of int_solids that a different worker writes in the same run.
C2_SharedIsReadOnly ==
    fn = "par" =>
        \A w \in DOMAIN groups : \A v \in DOMAIN groups :
            w # v => reads[w] \cap writes[v] = {}

\* C3: when intersect_solids returns, the solids are stable: one further pass
\* splitting every solid with every other solid whose bounding box overlaps
\* it leaves every solid unchanged.
C3_StableWhenReturned ==
    (fn = "seq" /\ si = NSolids) =>
        \A i \in SolidIds : \A k \in SolidIds :
            (i # k /\ overlapping_bounding_boxes(bound_boxes[i], bound_boxes[k]))
                => intersect_solid(int_solids[i], int_solids[k]).solid = int_solids[i]

\* C4: neither intersect_solids nor intersect_solids_parallel calls the split
\* for a pair of solids whose bounding boxes are further apart than the
\* tolerance along the X, Y or Z axis.
C4_NoSplitOfSeparated ==
    \A p \in calls : ~Separated(bound_boxes[p[1]], bound_boxes[p[2]])

\* C4 witness: a finished run that skipped a separated pair and split another
C4_Witness ==
    /\ RunDone
    /\ \E p \in skipped : Separated(bound_boxes[p[1]], bound_boxes[p[2]])
    /\ calls # {}

-----------------------------------------------------------------------------
(* intersect.py: intersect_rays_with_mesh_faces.  A worker is one run of   *)
(* the body handed to Parallel.ForEach (or the calling thread when         *)
(* cpu_count <= 1); one action per ray of the loop of intersect_rays /     *)
(* intersect_rays_context.                                                 *)

RayLists == 0..(NRayLists - 1)
RayKeys == RayLists \X (0..(RaysPerList - 1))
Faces == 0..(NFaces - 1)

\* the index ranges that run concurrently: every index on its own when
\* cpu_count is None, one range in the calling thread when cpu_count <= 1,
\* ray_groups otherwise
RayItems(count, cpu, floors) ==
    IF cpu = 0 THEN [g \in 1..count |-> [start |-> g - 1, stop |-> g]]
    ELSE IF cpu <= 1 THEN <<[start |-> 0, stop |-> count]>>
    ELSE SGroups(count, cpu, floors)

\* the next (count, j) at which the loop body of intersect_rays runs
RECURSIVE RayNorm(_, _, _)
RayNorm(count, j, stop) ==
    IF count >= stop THEN [count |-> stop, loop |-> "done", j |-> 0]
    ELSE IF j < RaysPerList                      \* enumerate(rays[i])
         THEN [count |-> count, loop |-> "rays", j |-> j]
         ELSE RayNorm(count + 1, 0, stop)

\* for indx in list(face_ids.Value): face_int[indx].append(j)
RayBody(w, i, j) ==
    LET struck == IF ray_seen[<<i, j>>] THEN face_ids[<<i, j>>] ELSE {}
    IN  /\ face_int' = [f \in Faces |->
                           IF f \in struck THEN Append(face_int[f], j)
                           ELSE face_int[f]]
        /\ appenders' = [f \in Faces |->
                            IF f \in struck THEN appenders[f] \cup {w}
                            ELSE appenders[f]]

RayStep(w) ==
    /\ fn = "rays"
    /\ wpos[w].loop # "done"
    /\ RayBody(w, wpos[w].count, wpos[w].j)
    /\ wpos' = [wpos EXCEPT ![w] = RayNorm(@.count, @.j + 1, groups[w].stop)]
    /\ UNCHANGED <<fn, groups, cpu_count, py2, solidVars, ray_seen, face_ids, pathVars,
                   geomVars, laterVars>>

\* the solid intersection is not running
SolidsIdle ==
    /\ bound_boxes = << >>
    /\ cuts = {}
    /\ int_solids = << >>
    /\ si = 0
    /\ sj = 0
    /\ reads = << >>
    /\ writes = << >>
    /\ calls = {}
    /\ skipped = {}

InitRays ==
    /\ fn = "rays"
    /\ ray_seen \in [RayKeys -> BOOLEAN]
    /\ face_ids \in [RayKeys -> SUBSET Faces]
    /\ face_int = [f \in Faces |-> << >>]        \* face_int.append([]) per face
    /\ appenders = [f \in Faces |-> {}]
    /\ cpu_count \in 0..MaxCpu
    /\ py2 \in IF cpu_count > 1 THEN BOOLEAN ELSE {FALSE}
    /\ groups = RayItems(NRayLists, cpu_count, py2)
    /\ wpos = [w \in DOMAIN groups |-> RayNorm(groups[w].start, 0, groups[w].stop)]
    /\ SolidsIdle
    /\ PathIdle
    /\ GeomIdle
    /\ LaterIdle

NextRays == \E w \in DOMAIN groups : RayStep(w)

SpecRays == InitRays /\ [][NextRays]_vars

\* C1: in every parallel section the result container is sized before the
\* workers start and two distinct workers write to disjoint slots: no slot,
\* and no list stored in a slot, is written or appended to by more than one
\* worker.
C1_DisjointSlots ==
    /\ \A f \in DOMAIN appenders : Cardinality(appenders[f]) <= 1
    /\ \A w \in DOMAIN writes : \A v \in DOMAIN writes :
           w # v => writes[w] \cap writes[v] = {}

-----------------------------------------------------------------------------
(* pythonpath.py: iron_python_search_path_windows.  A file is its lines, a  *)
(* line the markup on it: the XML declaration ("decl"), <settings ...>      *)
(* ("open"), </settings> ("close"), <settings/> ("sempty"), an element of   *)
(* another name ("ropen", "rclose"), an entry of another key ("other") and  *)
(* <entry key="SearchPaths">text</entry> ("sp").  The text of an entry is   *)
(* what text.split(';') gives, so '' is <<"">>; none says the entry has no  *)
(* text (ElementTree's None).                                               *)

LbtDir == "ladybug_tools/python/Lib/site-packages"
PolDir == "C:/Program Files/pollination/python"
UsrDir == "D:/lib"

Dirs == {LbtDir, PolDir, UsrDir}

HasLadybugTools(path) == path = LbtDir     \* 'ladybug_tools' in path
HasPollination(path) == path = PolDir      \* 'pollination' in path

Tok(t) == [t |-> t, none |-> TRUE, text |-> << >>]
Sp(text) == [t |-> "sp", none |-> FALSE, text |-> text]
SpNone == Tok("sp")

Absent == [exists |-> FALSE, lines |-> << >>]
File(lines) == [exists |-> TRUE, lines |-> lines]

RECURSIVE Flatten(_)
Flatten(lines) ==
    IF lines = << >> THEN << >> ELSE Head(lines) \o Flatten(Tail(lines))

\* xml.etree.ElementTree.fromstring, element.find('settings') and the loop
\* over settings.iter('entry'), one token at a time.  stack holds the open
\* elements; inside is the depth of the found settings element while open.
ParseStart ==
    [err |-> FALSE, stack |-> << >>, root |-> FALSE, found |-> FALSE,
     inside |-> 0, none |-> TRUE, text |-> << >>]

ParseTok(st, tok, first) ==
    LET failed == [st EXCEPT !.err = TRUE]
        depth == Len(st.stack)
        junk == depth = 0 /\ st.root          \* junk after document element
    IN  IF st.err THEN st
        ELSE IF tok.t = "decl" THEN (IF first THEN st ELSE failed)
        ELSE IF junk THEN failed
        ELSE IF tok.t \in {"open", "ropen"} THEN
            LET tag == IF tok.t = "open" THEN "settings" ELSE "root"
                child == depth = 1 /\ tag = "settings" /\ ~st.found
            IN  [st EXCEPT !.stack = Append(@, tag), !.root = TRUE,
                           !.found = @ \/ child,
                           !.inside = IF child THEN 2 ELSE @]
        ELSE IF tok.t \in {"close", "rclose"} THEN
            LET tag == IF tok.t = "close" THEN "settings" ELSE "root"
            IN  IF depth = 0 \/ st.stack[depth] # tag THEN failed
                ELSE [st EXCEPT !.stack = SubSeq(@, 1, depth - 1),
                                !.inside = IF @ = depth THEN 0 ELSE @]
        ELSE IF tok.t = "sempty" THEN
            [st EXCEPT !.root = TRUE, !.found = @ \/ (depth = 1)]
        ELSE IF tok.t = "sp" /\ st.inside # 0 THEN
            \* 'SearchPaths' in entry.attrib.values(): existing_paths = entry.text
            [st EXCEPT !.root = TRUE, !.none = tok.none, !.text = tok.text]
        ELSE [st EXCEPT !.root = TRUE]

RECURSIVE ParseFrom(_, _, _)
ParseFrom(st, toks, k) ==
    IF k > Len(toks) THEN st
    ELSE ParseFrom(ParseTok(st, toks[k], k = 1), toks, k + 1)

\* ok: the text parses; settings: element.find('settings') is not None;
\* none / text: existing_paths
ParseXml(lines) ==
    LET st == ParseFrom(ParseStart, Flatten(lines), 1)
    IN  [ok |-> ~st.err /\ st.root /\ st.stack = << >>,
         settings |-> st.found, none |-> st.none, text |-> st.text]

HasEntryStr(line) == \E k \in DOMAIN line : line[k].t = "sp"      \* '<entry key="SearchPaths">' in line
HasCloseStr(line) == \E k \in DOMAIN line : line[k].t = "close"   \* '</settings>' in line

\* pythonpath.py: filter_existing_paths
filter_existing_paths(existing_paths) ==
    LET Keep(path) == ~HasLadybugTools(path) /\ ~HasPollination(path)
        filt_paths == SelectSeq(existing_paths, Keep)
    IN  IF filt_paths = << >> THEN <<"">> ELSE filt_paths

InsertAt(contents, i, new_lines) ==
    SubSeq(contents, 1, i - 1) \o new_lines \o SubSeq(contents, i, Len(contents))

DeleteAt(contents, d) ==
    SubSeq(contents, 1, d - 1) \o SubSeq(contents, d + 1, Len(contents))

\* the loop that looks for the SearchPaths line and the closing tag: i is the
\* line it stops at (the last line when it never breaks), del is line_to_del
\* (0 for None); lines are counted from 1
RECURSIVE ScanPaths(_, _, _)
ScanPaths(contents, k, del) ==
    IF k > Len(contents) THEN [i |-> Len(contents), del |-> del]
    ELSE IF HasEntryStr(contents[k]) THEN ScanPaths(contents, k + 1, k)
    ELSE IF HasCloseStr(contents[k]) THEN [i |-> k, del |-> del]
    ELSE ScanPaths(contents, k + 1, del)

\* the loop of the settings_key_needed branch
RECURSIVE ScanClose(_, _)
ScanClose(contents, k) ==
    IF k > Len(contents) THEN Len(contents)
    ELSE IF HasCloseStr(contents[k]) THEN k
    ELSE ScanClose(contents, k + 1)

\* the skeleton written when settings_file does not exist
Skeleton ==
    << <<Tok("decl")>>, <<Tok("open")>>, <<Tok("open")>>, <<Tok("close")>>,
       <<Tok("close")>> >>

\* the search_path_needed branch: the lines written to the destination file
AddSearchPath(contents, python_package_dir, none, text) ==
    LET existing_paths ==
            IF HasLadybugTools(python_package_dir) /\ ~none
            THEN filter_existing_paths(text) ELSE text
        new_paths ==
            IF ~none /\ existing_paths # <<"">>
            THEN Append(existing_paths, python_package_dir)
            ELSE <<python_package_dir>>
        line_to_add == <<Sp(new_paths)>>
        scan == ScanPaths(contents, 1, 0)
        inserted == InsertAt(contents, scan.i, <<line_to_add>>)
    IN  IF scan.del # 0 THEN DeleteAt(inserted, scan.del) ELSE inserted

\* the lines_to_add of the settings_key_needed branch
SettingsBlock(python_package_dir) ==
    << <<Tok("open")>>, <<Sp(<<python_package_dir>>)>>, <<Tok("close")>> >>

\* the settings_key_needed branch as a no-op: the lines are written back as read
AddSettingsKey_noop(contents, python_package_dir) == contents

\* the settings_key_needed branch: the lines written to the destination file
AddSettingsKey(contents, python_package_dir) ==
    InsertAt(contents, ScanClose(contents, 1), SettingsBlock(python_package_dir))

\* the whole call: the file system after it, what it raised, what it
\* returned and the files it wrote
iron_python_search_path_windows(fsys, python_package_dir, destination_file) ==
    LET settings_file == "settings"
        isfile == fsys[settings_file].exists
        parsed == ParseXml(fsys[settings_file].lines)
        dest == IF destination_file = "None" THEN settings_file
                ELSE destination_file
    IN  IF isfile /\ ~parsed.ok
        THEN [fs |-> fsys, raised |-> "ParseError", ret |-> NoRet, written |-> {}]
        ELSE IF ~isfile
        THEN LET made == [fsys EXCEPT ![settings_file] = File(Skeleton)]
             IN  [fs |-> [made EXCEPT ![dest] =
                             File(AddSearchPath(Skeleton, python_package_dir,
                                                TRUE, << >>))],
                  raised |-> "none", ret |-> dest,
                  written |-> {settings_file, dest}]
        ELSE IF parsed.settings
        THEN [fs |-> [fsys EXCEPT ![dest] =
                         File(AddSearchPath(fsys[settings_file].lines,
                                            python_package_dir,
                                            parsed.none, parsed.text))],
              raised |-> "none", ret |-> dest, written |-> {dest}]
        ELSE [fs |-> [fsys EXCEPT ![dest] =
                         File(AddSettingsKey(fsys[settings_file].lines,
                                             python_package_dir))],
              raised |-> "none", ret |-> dest, written |-> {dest}]

PackageDirs == {LbtDir, UsrDir}

Patch(python_package_dir, destination_file) ==
    /\ fn = "patch"
    /\ Len(hist) < MaxCalls
    /\ LET r == iron_python_search_path_windows(fs, python_package_dir,
                                                destination_file)
       IN  /\ fs' = r.fs
           /\ ret' = r.ret
           /\ written' = r.written
           /\ hist' = Append(hist, [pkg |-> python_package_dir,
                                    dest |-> destination_file,
                                    raised |-> r.raised])
    /\ before' = fs
    /\ UNCHANGED <<shape, runVars, solidVars, rayVars, geomVars, laterVars>>

\* the texts of the SearchPaths entry of an initial settings file
RECURSIVE SeqsUpTo(_, _)
SeqsUpTo(S, n) ==
    IF n = 0 THEN {<< >>}
    ELSE LET shorter == SeqsUpTo(S, n - 1)
         IN  shorter \cup {Append(q, x) : q \in shorter, x \in S}

InitialEntries ==
    {SpNone, Sp(<<"">>)} \cup {Sp(q) : q \in SeqsUpTo(Dirs, MaxPaths) \ {<< >>}}

\* the settings files a run begins with, by kind
StdFile(entry) ==
    << <<Tok("decl")>>, <<Tok("open")>>, <<Tok("open")>>, <<Tok("other")>>,
       <<entry>>, <<Tok("close")>>, <<Tok("close")>> >>

SettingsFiles(kind) ==
    CASE kind = "std" -> {File(StdFile(e)) : e \in InitialEntries}
      [] kind = "noentry" ->
            {File(<< <<Tok("decl")>>, <<Tok("open")>>, <<Tok("open")>>,
                     <<Tok("other")>>, <<Tok("close")>>, <<Tok("close")>> >>)}
      [] kind = "absent" -> {Absent}
      [] kind = "noinner" ->
            {File(<< <<Tok("decl")>>, <<Tok("open")>>, <<Tok("close")>> >>),
             File(<< <<Tok("open"), Tok("close")>> >>),
             File(<< <<Tok("ropen")>>, <<Tok("rclose")>> >>)}
      [] kind = "oneline" ->
            {File(<< <<Tok("open"), Tok("open"), Sp(<<d>>), Tok("close"),
                       Tok("close")>> >>) : d \in Dirs}
      [] kind = "inneroneline" ->
            {File(<< <<Tok("open")>>,
                     <<Tok("open"), Sp(<<d>>), Tok("close")>>,
                     <<Tok("close")>> >>) : d \in Dirs}
      [] kind = "noclose" ->
            {File(<< <<Tok("ropen")>>, <<Tok("sempty")>>, <<Tok("rclose")>> >>)}
      [] kind = "twoentries" ->
            {File(<< <<Tok("open")>>, <<Tok("open")>>, <<Sp(<<UsrDir>>)>>,
                     <<Sp(<<d>>)>>, <<Tok("close")>>, <<Tok("close")>> >>)
                : d \in Dirs}
      [] kind = "malformed" ->
            {File(<< <<Tok("open")>>, <<Tok("open")>>, <<Sp(<<UsrDir>>)>> >>),
             File(<< >>)}

Kinds == {"std", "noentry", "absent", "noinner", "oneline", "inneroneline",
          "noclose", "twoentries", "malformed"}

InitPath ==
    /\ fn = "patch"
    /\ shape \in Kinds
    /\ \E f \in SettingsFiles(shape) : fs = [settings |-> f, dest |-> Absent]
    /\ before = fs
    /\ hist = << >>
    /\ ret = NoRet
    /\ written = {}
    /\ groups = << >>
    /\ wpos = << >>
    /\ cpu_count = 0
    /\ py2 = FALSE
    /\ SolidsIdle
    /\ RaysIdle
    /\ GeomIdle
    /\ LaterIdle

NextPath ==
    \E python_package_dir \in PackageDirs : \E destination_file \in {"None", "dest"} :
        Patch(python_package_dir, destination_file)

SpecPath == InitPath /\ [][NextPath]_vars

-----------------------------------------------------------------------------
(* The claims on the settings patch *)

\* the SearchPaths entries of a file, in order
SpEntries(lines) == SelectSeq(Flatten(lines), LAMBDA tok : tok.t = "sp")

Occurrences(x, seq) == Cardinality({k \in DOMAIN seq : seq[k] = x})

LastCall == hist[Len(hist)]

LastDest == IF LastCall.dest = "None" THEN "settings" ELSE LastCall.dest

\* python_package_dir is in the SearchPaths entry of the settings file
PresentIn(file, python_package_dir) ==
    LET parsed == ParseXml(file.lines)
    IN  /\ file.exists
        /\ parsed.ok /\ parsed.settings /\ ~parsed.none
        /\ Occurrences(python_package_dir, parsed.text) > 0

\* C5: two runs in a row with the same python_package_dir on the same
\* settings file do not duplicate the entry: the file then has exactly one
\* SearchPaths entry and python_package_dir is in it exactly once, for any
\* python_package_dir and any initial content of the entry.
C5_TwiceNoDuplicate ==
    (/\ shape = "std"
     /\ Len(hist) = 2
     /\ hist[1].pkg = hist[2].pkg
     /\ hist[1].dest = "None" /\ hist[2].dest = "None")
    => LET entries == SpEntries(fs["settings"].lines)
       IN  /\ Len(entries) = 1
           /\ ~entries[1].none
           /\ Occurrences(hist[2].pkg, entries[1].text) = 1

\* C6: if python_package_dir is already in the SearchPaths entry of the
\* settings file, the call does not edit the file: nothing is written and
\* the content of the settings file is unchanged.
C6_NoEditWhenPresent ==
    (Len(hist) > 0 /\ PresentIn(before["settings"], LastCall.pkg))
    => (written = {} /\ fs = before)

\* the settings file lacks the expected structure: it does not parse, has no
\* inner settings element, or has no line holding the closing settings tag
LacksStructure(file) ==
    /\ file.exists
    /\ \/ ~ParseXml(file.lines).ok
       \/ ~ParseXml(file.lines).settings
       \/ \A k \in DOMAIN file.lines : ~HasCloseStr(file.lines[k])

\* C7 as stated: on a settings file without the expected XML structure the
\* patch is a silent no-op: no exception and no file changed.
C7_NoOpWithoutStructure ==
    (Len(hist) > 0 /\ LacksStructure(before["settings"]))
    => (LastCall.raised = "none" /\ fs = before)

\* the settings file parses and has no inner settings element
NoInnerSettings(file) ==
    file.exists /\ ParseXml(file.lines).ok /\ ~ParseXml(file.lines).settings

\* C7 as amended: on a settings file that parses but has no inner settings
\* element the call raises nothing and adds the element: the destination
\* file is the settings file with a settings block holding one SearchPaths
\* entry for python_package_dir put before its first line with the closing
\* settings tag (before its last line when there is none); no other file
\* changes.
C7_AddsSettingsKey ==
    (Len(hist) > 0 /\ NoInnerSettings(before["settings"]))
    => LET old == before["settings"].lines
           new == fs[LastDest].lines
           closing == {k \in DOMAIN old : HasCloseStr(old[k])}
           at == IF closing = {} THEN Len(old)
                 ELSE CHOOSE k \in closing : \A m \in closing : k <= m
       IN  /\ LastCall.raised = "none"
           /\ ret = LastDest
           /\ fs[LastDest].exists
           /\ Len(new) = Len(old) + 3
           /\ \A k \in 1..(at - 1) : new[k] = old[k]
           /\ new[at] = <<Tok("open")>>
           /\ new[at + 1] = <<Sp(<<LastCall.pkg>>)>>
           /\ new[at + 2] = <<Tok("close")>>
           /\ \A k \in at..Len(old) : new[k + 3] = old[k]
           /\ \A f \in DOMAIN fs : f # LastDest => fs[f] = before[f]

\* C7 witness: a call on a file without inner settings element has written
\* its destination file
C7_Witness ==
    /\ Len(hist) > 0
    /\ NoInnerSettings(before["settings"])
    /\ written = {LastDest}
    /\ fs # before

\* C8: for any settings file the call returns the destination file, the
\* returned file exists when the call ends, and its content contains
\* python_package_dir.
C8_ReturnsPatchedFile ==
    Len(hist) > 0
    => /\ LastCall.raised = "none"
       /\ ret = LastDest
       /\ fs[LastDest].exists
       /\ \E k \in DOMAIN SpEntries(fs[LastDest].lines) :
              Occurrences(LastCall.pkg, SpEntries(fs[LastDest].lines)[k].text) > 0

-----------------------------------------------------------------------------
(* fromgeometry.py: from_point3d, togeometry.py: to_point3d.  A Python      *)
(* number is its value and its type; the Rhino Point3d constructor takes   *)
(* doubles, so what it stores is the double nearest to what it is given.   *)

\* The double nearest to the value big * 2^53 + n (ties to the even
\* mantissa), as the offset from big * 2^53.  Below 2^53 every integer is a
\* double; from 2^53 to 2^54 the doubles are the even integers.
NearestDouble(big, n) ==
    IF big = 0 \/ n <= 0 \/ n % 2 = 0 THEN n
    ELSE IF (n - 1) % 4 = 0 THEN n - 1 ELSE n + 1

\* the conversion of a Python number to System.Double
ToDouble(c) ==
    IF c.kind = "float" THEN c
    ELSE Num(c.big, NearestDouble(c.big, c.num), "float")

\* rg.Point3d(x, y, z): the coordinates as System.Double
HostPoint3d(x, y, z) == [X |-> ToDouble(x), Y |-> ToDouble(y), Z |-> ToDouble(z)]

\* ladybug_geometry Point3D(x, y, z): the coordinates as given
Point3D(x, y, z) == [x |-> x, y |-> y, z |-> z]

from_point3d(point) == HostPoint3d(point.x, point.y, point.z)

\* to_point3d with Y and Z exchanged
to_point3d_swapped(point) == Point3D(point.X, point.Z, point.Y)

to_point3d(point) == Point3D(point.X, point.Y, point.Z)

FromPoint ==
    /\ fn = "point"
    /\ gstep = "start"
    /\ host_pt' = from_point3d(pt)
    /\ gstep' = "host"
    /\ UNCHANGED <<pt, back_pt, quad, planar, area0, via, faces_out,
                   runVars, solidVars, rayVars, pathVars, laterVars>>

ToPoint ==
    /\ fn = "point"
    /\ gstep = "host"
    /\ back_pt' = to_point3d(host_pt)
    /\ gstep' = "back"
    /\ UNCHANGED <<pt, host_pt, quad, planar, area0, via, faces_out,
                   runVars, solidVars, rayVars, pathVars, laterVars>>

-----------------------------------------------------------------------------
(* The handling of one quad mesh face by to_face3d (togeometry.py),         *)
(* mesh_faces_to_face3d (planarize.py) and bake_mesh3d_as_hatch             *)
(* (bakegeometry.py).  A face is the tuple of its vertex indices; the      *)
(* planarity and area tests are the geometry library's and the host's.     *)

\* Python's face[k], counted from 0
At(face, k) == face[k + 1]

\* togeometry.py: to_face3d, the branch for a quad face of a mesh
to_face3d_quad(face, is_planar, no_area) ==
    IF no_area THEN << >>                          \* lb_face.area != 0 fails
    ELSE IF ~is_planar
    THEN LET verts1 == <<At(face, 0), At(face, 1), At(face, 2)>>
             verts2 == <<At(face, 3), At(face, 0), At(face, 1)>>
         IN  <<verts1, verts2>>
    ELSE <<face>>

\* planarize.py: mesh_faces_to_face3d, the branch for a quad face
mesh_faces_to_face3d_quad(m_face, is_planar) ==
    IF is_planar THEN <<m_face>>                   \* lb_face.check_planar(tolerance, False)
    ELSE LET lb_face_1 == <<At(m_face, 0), At(m_face, 1), At(m_face, 2)>>     \* A, B, C
             lb_face_2 == <<At(m_face, 2), At(m_face, 3), At(m_face, 0)>>     \* C, D, A
         IN  <<lb_face_1, lb_face_2>>

\* bakegeometry.py: bake_mesh3d_as_hatch, one face of four vertices; the
\* closing vertex of each polyline is left out of the face
bake_mesh3d_as_hatch_quad(face, is_planar) ==
    LET f_verts == Append(face, face[1])           \* f_verts.append(f_verts[0])
        n == Len(f_verts)
    IN  IF is_planar THEN <<face>>                 \* p_line.IsPlanar()
        ELSE LET p_line_1 == SubSeq(f_verts, 1, 3)         \* f_verts[:3] + [f_verts[0]]
                 p_line_2 == SubSeq(f_verts, n - 2, n)     \* f_verts[-3:] + [f_verts[-3]]
             IN  <<p_line_1, p_line_2>>

ConvertQuad(how) ==
    /\ fn = "quad"
    /\ via = "none"
    /\ via' = how
    /\ faces_out' = CASE how = "to_face3d" -> to_face3d_quad(quad, planar, area0)
                      [] how = "mesh_faces_to_face3d" ->
                            mesh_faces_to_face3d_quad(quad, planar)
                      [] how = "bake_mesh3d_as_hatch" ->
                            bake_mesh3d_as_hatch_quad(quad, planar)
    /\ UNCHANGED <<pt, host_pt, back_pt, gstep, quad, planar, area0,
                   runVars, solidVars, rayVars, pathVars, laterVars>>

\* the coordinates: every integer of the range, and every float that is
\* the value of a double
Coords ==
    {c \in {Num(b, n, k) : b \in {0, 1}, n \in (0 - MaxCoord)..MaxCoord,
                           k \in {"int", "float"}} :
        c.kind = "float" => NearestDouble(c.big, c.num) = c.num}

Verts == 0..(NVerts - 1)

\* the quads: four different vertices of the mesh
Quads ==
    {q \in [1..4 -> Verts] : \A a \in 1..4 : \A b \in 1..4 : a # b => q[a] # q[b]}

InitGeom ==
    /\ fn \in {"point", "quad"}
    /\ IF fn = "point"
       THEN /\ \E x \in Coords : \E y \in Coords : \E z \in Coords :
                  pt = Point3D(x, y, z)
            /\ gstep = "start"
            /\ quad = << >> /\ planar = TRUE /\ area0 = FALSE
       ELSE /\ pt = Point3D(Zero("int"), Zero("int"), Zero("int"))
            /\ gstep = "idle"
            /\ quad \in Quads
            /\ planar \in BOOLEAN
            \* the area of a quad is half the length of the cross product of
            \* its diagonals: it is 0 only when they are parallel, and then
            \* the four vertices are in one plane
            /\ area0 \in IF planar THEN BOOLEAN ELSE {FALSE}
    /\ host_pt = HostPoint3d(Zero("int"), Zero("int"), Zero("int"))
    /\ back_pt = pt
    /\ via = "none"
    /\ faces_out = << >>
    /\ groups = << >>
    /\ wpos = << >>
    /\ cpu_count = 0
    /\ py2 = FALSE
    /\ SolidsIdle
    /\ RaysIdle
    /\ PathIdle
    /\ LaterIdle

NextGeom ==
    \/ FromPoint
    \/ ToPoint
    \/ \E how \in {"to_face3d", "mesh_faces_to_face3d", "bake_mesh3d_as_hatch"} :
           ConvertQuad(how)

SpecGeom == InitGeom /\ [][NextGeom]_vars

-----------------------------------------------------------------------------
(* The claims on the conversions *)

\* Python's == on two numbers: the values are compared, whatever the types
NumEq(a, b) == a.big = b.big /\ a.num = b.num

\* the number is one a double holds
IsDouble(c) == NearestDouble(c.big, c.num) = c.num

\* C9 as stated: a point converted to the host and back has the coordinates
\* it had: to_point3d(from_point3d(p)) has the x, y, z of p, and
\* to_point3d(q) has x, y, z equal to q.X, q.Y, q.Z.
C9_PointRoundTrip ==
    gstep = "back" =>
        /\ NumEq(back_pt.x, pt.x) /\ NumEq(back_pt.y, pt.y) /\ NumEq(back_pt.z, pt.z)
        /\ back_pt.x = host_pt.X /\ back_pt.y = host_pt.Y /\ back_pt.z = host_pt.Z

\* C9 amended: to_point3d(from_point3d(p)) has, on each axis, the coordinate
\* of p when that coordinate is a number a double holds (a float, or an
\* integer of magnitude at most 2^53), and otherwise the double nearest to
\* it; and to_point3d(q) has x, y, z equal to q.X, q.Y, q.Z.
C9_RoundTripOfDoubles ==
    gstep = "back" =>
        /\ IsDouble(pt.x) => NumEq(back_pt.x, pt.x)
        /\ IsDouble(pt.y) => NumEq(back_pt.y, pt.y)
        /\ IsDouble(pt.z) => NumEq(back_pt.z, pt.z)
        /\ back_pt.x = ToDouble(pt.x) /\ back_pt.y = ToDouble(pt.y)
        /\ back_pt.z = ToDouble(pt.z)
        /\ back_pt.x = host_pt.X /\ back_pt.y = host_pt.Y /\ back_pt.z = host_pt.Z

\* C9 witness: a point of three different coordinates, all of them numbers
\* a double holds, the first an integer of 2^53 or more, went to the host
\* and back
C9_Witness ==
    /\ gstep = "back"
    /\ pt.x.kind = "int" /\ pt.x.big = 1 /\ pt.x.num >= 0
    /\ IsDouble(pt.x) /\ IsDouble(pt.y) /\ IsDouble(pt.z)
    /\ ~NumEq(pt.x, pt.y) /\ ~NumEq(pt.y, pt.z) /\ ~NumEq(pt.x, pt.z)

Edge(a, b) == {a, b}

TriEdges(tri) == {Edge(tri[1], tri[2]), Edge(tri[2], tri[3]), Edge(tri[3], tri[1])}

QuadEdges(q) == {Edge(q[1], q[2]), Edge(q[2], q[3]), Edge(q[3], q[4]), Edge(q[4], q[1])}

QuadDiagonals(q) == {Edge(q[1], q[3]), Edge(q[2], q[4])}

\* C10: a non-planar quad split by to_face3d, mesh_faces_to_face3d or
\* bake_mesh3d_as_hatch gives exactly two triangles that make up the quad:
\* they share exactly one diagonal of the quad and each of the four quad
\* edges is an edge of exactly one of them.
C10_QuadSplitIntoHalves ==
    (via # "none" /\ ~planar) =>
        /\ Len(faces_out) = 2
        /\ Len(faces_out[1]) = 3 /\ Len(faces_out[2]) = 3
        /\ LET e1 == TriEdges(faces_out[1])
               e2 == TriEdges(faces_out[2])
           IN  /\ Cardinality(e1 \cap e2) = 1
               /\ e1 \cap e2 \subseteq QuadDiagonals(quad)
               /\ \A e \in QuadEdges(quad) : (e \in e1) # (e \in e2)

\* nothing but intersect_mesh_rays runs
OnlyMesh ==
    /\ SolidsIdle
    /\ RaysIdle
    /\ PathIdle
    /\ GeomIdle
    /\ PortsIdle
    /\ VersionIdle
    /\ DesignDayIdle
    /\ ProjectInfoIdle
    /\ PackageDirIdle
    /\ FaceIdle
    /\ PthIdle
    /\ JoinIdle

\* nothing but input_output_changed runs
OnlyPorts ==
    /\ SolidsIdle
    /\ RaysIdle
    /\ PathIdle
    /\ GeomIdle
    /\ MeshIdle
    /\ VersionIdle
    /\ DesignDayIdle
    /\ ProjectInfoIdle
    /\ PackageDirIdle
    /\ FaceIdle
    /\ PthIdle
    /\ JoinIdle

\* nothing but validate_version runs
OnlyVersion ==
    /\ SolidsIdle
    /\ RaysIdle
    /\ PathIdle
    /\ GeomIdle
    /\ MeshIdle
    /\ PortsIdle
    /\ DesignDayIdle
    /\ ProjectInfoIdle
    /\ PackageDirIdle
    /\ FaceIdle
    /\ PthIdle
    /\ JoinIdle

\* nothing but retrieve_cooling_design_day_input runs
OnlyDesignDay ==
    /\ SolidsIdle
    /\ RaysIdle
    /\ PathIdle
    /\ GeomIdle
    /\ MeshIdle
    /\ PortsIdle
    /\ VersionIdle
    /\ ProjectInfoIdle
    /\ PackageDirIdle
    /\ FaceIdle
    /\ PthIdle
    /\ JoinIdle

\* nothing but extract_project_info runs
OnlyProjectInfo ==
    /\ SolidsIdle
    /\ RaysIdle
    /\ PathIdle
    /\ GeomIdle
    /\ MeshIdle
    /\ PortsIdle
    /\ VersionIdle
    /\ DesignDayIdle
    /\ PackageDirIdle
    /\ FaceIdle
    /\ PthIdle
    /\ JoinIdle

\* nothing but create_python_package_dir runs
OnlyPackageDir ==
    /\ SolidsIdle
    /\ RaysIdle
    /\ PathIdle
    /\ GeomIdle
    /\ MeshIdle
    /\ PortsIdle
    /\ VersionIdle
    /\ DesignDayIdle
    /\ ProjectInfoIdle
    /\ FaceIdle
    /\ PthIdle
    /\ JoinIdle

\* nothing but from_face3d runs
OnlyFace ==
    /\ SolidsIdle
    /\ RaysIdle
    /\ PathIdle
    /\ GeomIdle
    /\ MeshIdle
    /\ PortsIdle
    /\ VersionIdle
    /\ DesignDayIdle
    /\ ProjectInfoIdle
    /\ PackageDirIdle
    /\ PthIdle
    /\ JoinIdle

\* nothing but script_editor_search_path runs
OnlyPth ==
    /\ SolidsIdle
    /\ RaysIdle
    /\ PathIdle
    /\ GeomIdle
    /\ MeshIdle
    /\ PortsIdle
    /\ VersionIdle
    /\ DesignDayIdle
    /\ ProjectInfoIdle
    /\ PackageDirIdle
    /\ FaceIdle
    /\ JoinIdle

\* nothing but from_polyface3d, from_face3ds_to_joined_brep and from_face3d_to_solid runs
OnlyJoin ==
    /\ SolidsIdle
    /\ RaysIdle
    /\ PathIdle
    /\ GeomIdle
    /\ MeshIdle
    /\ PortsIdle
    /\ VersionIdle
    /\ DesignDayIdle
    /\ ProjectInfoIdle
    /\ PackageDirIdle
    /\ FaceIdle
    /\ PthIdle

-----------------------------------------------------------------------------
(* intersect.py: intersect_mesh_rays.  One action for the part before the  *)
(* loops (the cpu_count override and the grouping of the points), one per  *)
(* call of intersect_point / intersect_point_normal_check by a worker, one *)
(* for the return.  What MeshRay and VectorAngle answer is the host's.     *)

\* if not parallel: cpu_count = 1
EffectiveCpu == IF parallel THEN cpu_count ELSE 1

\* the index ranges that run concurrently: every index on its own when
\* cpu_count is None, one range in the calling thread when cpu_count <= 1,
\* pt_groups otherwise
MeshItems(count, cpu, floors) ==
    IF cpu = 0 THEN [g \in 1..count |-> [start |-> g - 1, stop |-> g]]
    ELSE IF cpu <= 1 THEN <<[start |-> 0, stop |-> count]>>
    ELSE SGroups(count, cpu, floors)

\* the position of a worker that is to run index count next
MeshPos(count, stop) ==
    IF count >= stop THEN [count |-> stop, loop |-> "done", j |-> 0]
    ELSE [count |-> count, loop |-> "pts", j |-> 0]

\* intersect_point: int_list, from whether MeshRay(mesh, ray) >= 0 per vector
intersect_point(hit) ==
    [j \in 1..n_vectors |-> IF hit[j] THEN 0 ELSE 1]

\* intersect_point_normal_check: int_list, a vector more than 90 degrees
\* from the normal giving 0
intersect_point_normal_check(hit, away) ==
    [j \in 1..n_vectors |-> IF away[j] THEN 0 ELSE IF hit[j] THEN 0 ELSE 1]

\* lines 190-194 and 241-247: pt_count / worker_count divides by 0 when
\* there is no point and cpu_count > 1
MeshStart ==
    /\ fn = "mesh"
    /\ mesh_state = "called"
    /\ IF EffectiveCpu > 1 /\ n_points = 0
       THEN /\ mesh_state' = "raised"             \* ZeroDivisionError
            /\ UNCHANGED <<groups, wpos, visited>>
       ELSE /\ mesh_state' = "running"
            /\ groups' = MeshItems(n_points, EffectiveCpu, py2)
            /\ wpos' = [w \in DOMAIN groups' |->
                           MeshPos(groups'[w].start, groups'[w].stop)]
            /\ visited' = [w \in DOMAIN groups' |-> << >>]
    /\ UNCHANGED <<fn, cpu_count, py2, n_points, n_vectors, normals, parallel,
                   intersection_matrix, othersMesh>>

MeshStep(w) ==
    /\ fn = "mesh"
    /\ mesh_state = "running"
    /\ wpos[w].loop # "done"
    /\ LET i == wpos[w].count
       IN  /\ \E hit \in [1..n_vectors -> BOOLEAN] :
                 \E away \in [1..n_vectors -> IF normals THEN BOOLEAN ELSE {FALSE}] :
                     LET int_list == IF normals
                                     THEN intersect_point_normal_check(hit, away)
                                     ELSE intersect_point(hit)
                     IN  intersection_matrix' =
                             [intersection_matrix EXCEPT ![i + 1] =
                                 [filled |-> TRUE, row |-> int_list]]
           /\ visited' = [visited EXCEPT ![w] = Append(@, i)]
           /\ wpos' = [wpos EXCEPT ![w] = MeshPos(i + 1, groups[w].stop)]
    /\ UNCHANGED <<fn, groups, cpu_count, py2, n_points, n_vectors, normals,
                   parallel, mesh_state, othersMesh>>

\* return intersection_matrix, angle_matrix
MeshReturn ==
    /\ fn = "mesh"
    /\ mesh_state = "running"
    /\ \A w \in DOMAIN wpos : wpos[w].loop = "done"
    /\ mesh_state' = "returned"
    /\ UNCHANGED <<runVars, n_points, n_vectors, normals, parallel,
                   intersection_matrix, visited, othersMesh>>

InitMesh ==
    /\ fn = "mesh"
    /\ n_points \in 0..MaxPoints
    /\ n_vectors \in 0..MaxVecs
    /\ normals \in BOOLEAN
    /\ parallel \in BOOLEAN
    /\ cpu_count \in 0..MaxCpu
    /\ py2 \in IF cpu_count > 1 THEN BOOLEAN ELSE {FALSE}
    /\ intersection_matrix =                     \* [0] * len(points)
           [i \in 1..n_points |-> [filled |-> FALSE, row |-> << >>]]
    /\ groups = << >>
    /\ wpos = << >>
    /\ visited = << >>
    /\ mesh_state = "called"
    /\ OnlyMesh

NextMesh ==
    \/ MeshStart
    \/ \E w \in DOMAIN groups : MeshStep(w)
    \/ MeshReturn

SpecMesh == InitMesh /\ [][NextMesh]_vars

-----------------------------------------------------------------------------
(* The claims on intersect_mesh_rays and on the worker groups *)

\* C11: for every list of points (the empty one too), every list of
\* vectors and every cpu_count and parallel setting, intersect_mesh_rays
\* returns a matrix with one sub-list per point, each of len(vectors)
\* entries, every entry 0 or 1: the call does not raise, and what it has
\* returned has that shape.
C11_MatrixShape ==
    /\ mesh_state # "raised"
    /\ mesh_state = "returned" =>
          /\ Len(intersection_matrix) = n_points
          /\ \A i \in 1..n_points :
                /\ intersection_matrix[i].filled
                /\ Len(intersection_matrix[i].row) = n_vectors
                /\ \A j \in 1..n_vectors : intersection_matrix[i].row[j] \in {0, 1}

\* the groups are contiguous index ranges that partition 0..count-1
PartitionOf(gs, count) ==
    /\ Len(gs) >= 1
    /\ gs[1].start = 0
    /\ gs[Len(gs)].stop = count
    /\ \A g \in 1..Len(gs) : gs[g].start < gs[g].stop
    /\ \A g \in 1..(Len(gs) - 1) : gs[g].stop = gs[g + 1].start

\* how often index i was run by the workers
TimesRun(i) ==
    Cardinality({<<w, k>> \in (DOMAIN visited) \X (1..MaxPoints + 1) :
                    k <= Len(visited[w]) /\ visited[w][k] = i})

\* C12: with cpu_count > 1 the worker groups are contiguous index ranges
\* that partition 0..n-1, for every n >= 1 and cpu_count >= 2: no index is
\* run twice, none is skipped once the workers are done, and no group
\* reaches past n.
C12_GroupsPartition ==
    /\ \A count \in 1..MaxItems : \A cpu \in 2..(MaxCpu + 1) : \A floors \in BOOLEAN :
          PartitionOf(SGroups(count, cpu, floors), count)
    /\ (fn = "mesh" /\ mesh_state \in {"running", "returned"}
            /\ EffectiveCpu > 1 /\ n_points >= 1) =>
          /\ PartitionOf(groups, n_points)
          /\ \A i \in 0..(n_points - 1) : TimesRun(i) <= 1
          /\ \A w \in DOMAIN visited : \A k \in 1..Len(visited[w]) :
                visited[w][k] \in 0..(n_points - 1)
          /\ mesh_state = "returned" => \A i \in 0..(n_points - 1) : TimesRun(i) = 1

\* C12 witness: the points were run in more than one group, one of them of
\* more than one point, and the call returned
C12_Witness ==
    /\ fn = "mesh"
    /\ mesh_state = "returned"
    /\ EffectiveCpu > 1
    /\ Len(groups) >= 2
    /\ \E w \in DOMAIN visited : Len(visited[w]) >= 2

\* C13: with cpu_count > 1 the index range is divided into at most
\* cpu_count worker groups, for every number of items n >= 1.
C13_AtMostCpuCountGroups ==
    (fn = "mesh" /\ mesh_state \in {"running", "returned"}
        /\ EffectiveCpu > 1 /\ n_points >= 1) =>
        Len(groups) <= cpu_count

-----------------------------------------------------------------------------
(* versioning/diff.py: compare_port, compare_ports, input_output_changed.  *)
(* An input port is [Name, TypeName, Access, hint]; an output port has no  *)
(* TypeHint attribute (hint is FALSE) and its TypeName and Access are not  *)
(* looked at.                                                              *)

InPort(name, type_name, access) ==
    [Name |-> name, TypeName |-> type_name, Access |-> access, hint |-> TRUE]

OutPort(name) ==
    [Name |-> name, TypeName |-> "", Access |-> "", hint |-> FALSE]

compare_port(p1, p2) ==
    IF p1.hint                                     \* hasattr(p1, 'TypeHint')
    THEN IF p1.Name # p2.Name THEN FALSE
         ELSE IF p1.TypeName # p2.TypeName THEN FALSE
         ELSE IF p1.Access # p2.Access THEN FALSE
         ELSE TRUE
    ELSE IF p1.Name # p2.Name THEN FALSE ELSE TRUE

compare_ports(c1, c2) ==
    IF \E i \in 1..Len(c1.Input) : ~compare_port(c1.Input[i], c2.Input[i])
    THEN TRUE
    ELSE IF \E i \in 1..Len(c1.Output) : ~compare_port(c1.Output[i], c2.Output[i])
    THEN TRUE
    ELSE FALSE

PyBool(b) == IF b THEN "True" ELSE "False"

\* input_output_changed(user_object, component), compare_ports included
InputOutputChanged ==
    /\ fn = "ports"
    /\ changed_ret = "none"
    /\ IF Len(user_object.Input) # Len(component.Input)
       THEN changed_ret' = "True" /\ ports_ret' = "none"
       ELSE IF Len(user_object.Output) # Len(component.Output)
       THEN changed_ret' = "True" /\ ports_ret' = "none"
       ELSE /\ ports_ret' = PyBool(compare_ports(user_object, component))
            /\ changed_ret' = ports_ret'
    /\ UNCHANGED <<user_object, component, othersPort>>

PortNames == {"_a", "_b"}
TypeNames == {"int", "str"}
Accesses == {"item", "list"}

InPorts == {InPort(n, t, a) : n \in PortNames, t \in TypeNames, a \in Accesses}
OutPorts == {OutPort(n) : n \in PortNames}

PortSeqs(ports) == UNION {[1..k -> ports] : k \in 0..MaxPorts}

Components == {[Input |-> i, Output |-> o] : i \in PortSeqs(InPorts), o \in PortSeqs(OutPorts)}

InitPorts ==
    /\ fn = "ports"
    /\ user_object \in Components
    /\ component \in Components
    /\ ports_ret = "none"
    /\ changed_ret = "none"
    /\ groups = << >>
    /\ wpos = << >>
    /\ cpu_count = 0
    /\ py2 = FALSE
    /\ OnlyPorts

NextPorts == InputOutputChanged

SpecPorts == InitPorts /\ [][NextPorts]_vars

\* the two components have the same ports: as many inputs and outputs, and
\* each pair of them equal
SamePorts(c1, c2) ==
    /\ Len(c1.Input) = Len(c2.Input)
    /\ Len(c1.Output) = Len(c2.Output)
    /\ \A i \in 1..Len(c1.Input) : compare_port(c1.Input[i], c2.Input[i])
    /\ \A i \in 1..Len(c1.Output) : compare_port(c1.Output[i], c2.Output[i])

\* C14: compare_ports(c1, c2) returns True if all corresponding input and
\* output ports of the two components are equal (as judged by compare_port)
\* and False if at least one pair of ports differs.
C14_TrueWhenPortsEqual ==
    ports_ret # "none" =>
        ports_ret = PyBool(SamePorts(user_object, component))

-----------------------------------------------------------------------------
(* versioning/diff.py (and the same code in versioning/userobject.py):     *)
(* parse_version, validate_version.  A version text is the sequence of its *)
(* parts between the dots; a part is [val, form]: "plain" is str(val),     *)
(* "padded" is "0" + str(val), which int() reads as val, and "bad" is a    *)
(* text int() does not read.  Two texts are equal when their parts are.    *)

Part(val, form) == [val |-> val, form |-> form]

Version(parts) == [none |-> FALSE, parts |-> parts]

NoVersion == [none |-> TRUE, parts |-> << >>]

\* '.'.join(str(i) for i in (a, b, c))
JoinStr(a, b, c) == <<Part(a, "plain"), Part(b, "plain"), Part(c, "plain")>>

\* parse_version: [ok, major, minor, patch]; ok is FALSE for the ValueError
\* of int() and of unpacking other than three values
parse_version(semver_str) ==
    IF Len(semver_str.parts) = 3 /\ \A k \in 1..3 : semver_str.parts[k].form # "bad"
    THEN [ok |-> TRUE, major |-> semver_str.parts[1].val,
          minor |-> semver_str.parts[2].val, patch |-> semver_str.parts[3].val]
    ELSE [ok |-> FALSE, major |-> 0, minor |-> 0, patch |-> 0]

CHANGE_TAGS == {"ignore", "fix", "feat", "perf", "release", "docs"}

\* valid_version with a 'feat' or 'perf' that keeps the patch number
valid_version_keeps_patch(x, y, z, new, tag) ==
    CASE tag = "ignore" -> new.parts
      [] tag = "fix" -> JoinStr(x, y, z + 1)
      [] tag \in {"feat", "perf"} -> JoinStr(x, y + 1, z)
      [] tag = "release" -> JoinStr(x + 1, 0, 0)
      [] tag = "docs" -> JoinStr(x, y, z)

\* lines 91-100: the text the new version has to be
valid_version(x, y, z, new, tag) ==
    CASE tag = "ignore" -> new.parts
      [] tag = "fix" -> JoinStr(x, y, z + 1)
      [] tag \in {"feat", "perf"} -> JoinStr(x, y + 1, 0)
      [] tag = "release" -> JoinStr(x + 1, 0, 0)
      [] tag = "docs" -> JoinStr(x, y, z)

\* how the call ends: "True" and "None" are what it returns, the others
\* the exception that leaves it
validate_version(current, new, tag) ==
    IF current.none THEN "True"
    ELSE LET cur == parse_version(current)
         IN  IF ~cur.ok THEN "ValueError"
             ELSE IF ~parse_version(new).ok THEN "ValueError"
             ELSE IF tag \notin CHANGE_TAGS THEN "ValueError"
             ELSE IF valid_version(cur.major, cur.minor, cur.patch, new, tag) = new.parts
                  THEN "None"
                  ELSE "AssertionError"

ValidateVersion ==
    /\ fn = "version"
    /\ vres = "called"
    /\ vres' = validate_version(current_version, new_version, change_type)
    /\ UNCHANGED <<current_version, new_version, change_type, othersVersion>>

Parts(top) ==
    {Part(v, f) : v \in 0..top, f \in {"plain", "padded"}} \cup {Part(0, "bad")}

\* the installed versions: none, every x.y.z, and three that are not x.y.z
InstalledVersions ==
    {NoVersion}
      \cup {Version(JoinStr(x, y, z)) : x \in 0..MaxVer, y \in 0..MaxVer, z \in 0..MaxVer}
      \cup {Version(<<Part(1, "plain"), Part(0, "plain")>>),
            Version(<<Part(1, "plain"), Part(0, "bad"), Part(0, "plain")>>),
            Version(<<Part(1, "plain"), Part(0, "padded"), Part(0, "plain")>>)}

NewVersions ==
    {Version(p) : p \in [1..2 -> Parts(MaxVer + 1)] \cup [1..3 -> Parts(MaxVer + 1)]}

InitVersion ==
    /\ fn = "version"
    /\ current_version \in InstalledVersions
    /\ new_version \in NewVersions
    /\ change_type \in CHANGE_TAGS \cup {"chore"}
    /\ vres = "called"
    /\ groups = << >>
    /\ wpos = << >>
    /\ cpu_count = 0
    /\ py2 = FALSE
    /\ OnlyVersion

NextVersion == ValidateVersion

SpecVersion == InitVersion /\ [][NextVersion]_vars

\* the text is three numbers written plainly: x.y.z
IsXYZ(v) ==
    /\ ~v.none
    /\ Len(v.parts) = 3
    /\ \A k \in 1..3 : v.parts[k].form = "plain"

\* the text is one that parse_version reads
WellFormed(v) ==
    /\ ~v.none
    /\ Len(v.parts) = 3
    /\ \A k \in 1..3 : v.parts[k].form # "bad"

\* new_version is the text the change type asks for after x.y.z
Conforms(cur, new, tag) ==
    /\ IsXYZ(new)
    /\ LET x == cur.parts[1].val
           y == cur.parts[2].val
           z == cur.parts[3].val
           nx == new.parts[1].val
           ny == new.parts[2].val
           nz == new.parts[3].val
       IN  CASE tag = "fix" -> nx = x /\ ny = y /\ nz = z + 1
             [] tag \in {"feat", "perf"} -> nx = x /\ ny = y + 1 /\ nz = 0
             [] tag = "release" -> nx = x + 1 /\ ny = 0 /\ nz = 0
             [] tag = "docs" -> nx = x /\ ny = y /\ nz = z

Accepted == vres \in {"True", "None"}

\* C15 as stated: for an installed version x.y.z, validate_version accepts
\* new_version exactly when it conforms to the change type ('ignore'
\* accepting any well-formed version), any other new_version fails with an
\* AssertionError, any other change type raises ValueError, and with no
\* installed version every input is accepted.
C15_AcceptsConformingOnly ==
    vres # "called" =>
        /\ current_version.none => Accepted
        /\ (IsXYZ(current_version) /\ change_type \notin CHANGE_TAGS) =>
              vres = "ValueError"
        /\ (IsXYZ(current_version) /\ change_type = "ignore"
                /\ WellFormed(new_version)) => Accepted
        /\ (IsXYZ(current_version) /\ change_type \in CHANGE_TAGS \ {"ignore"}) =>
              IF Conforms(current_version, new_version, change_type)
              THEN Accepted
              ELSE vres = "AssertionError"

\* C15 amended: with no installed version every input is accepted; else an
\* installed or new version that is not three integers raises ValueError,
\* whatever the change type; else a change type that is no tag raises
\* ValueError; else 'ignore' accepts, and the other tags accept new_version
\* exactly when its text is x.y.(z+1) for 'fix', x.(y+1).0 for 'feat' and
\* 'perf', (x+1).0.0 for 'release', x.y.z for 'docs', and fail with an
\* AssertionError otherwise.
C15_ValidateVersion ==
    vres # "called" =>
        IF current_version.none THEN vres = "True"
        ELSE IF ~WellFormed(current_version) \/ ~WellFormed(new_version)
        THEN vres = "ValueError"
        ELSE IF change_type \notin CHANGE_TAGS THEN vres = "ValueError"
        ELSE IF change_type = "ignore" THEN vres = "None"
        ELSE LET cur == Version(JoinStr(current_version.parts[1].val,
                                         current_version.parts[2].val,
                                         current_version.parts[3].val))
             IN  IF Conforms(cur, new_version, change_type)
                 THEN vres = "None"
                 ELSE vres = "AssertionError"

\* C15 witness: a 'feat' after a version with a patch number was accepted
C15_Witness ==
    /\ vres = "None"
    /\ change_type = "feat"
    /\ IsXYZ(current_version)
    /\ current_version.parts[3].val > 0

-----------------------------------------------------------------------------
(* command.py: retrieve_cooling_design_day_input.  One action per turn of  *)
(* the while loop, the user's answer to url_input_request.Get() being its  *)
(* input; the turn that leaves the loop runs the rest of the function.     *)
(* A design day and a Wea are told apart by where they were taken from.    *)

Ended(kind, design_day, wea) == [kind |-> kind, design_day |-> design_day, wea |-> wea]

\* lines 367-394: the possible files made into the design day
BestDesignDay(stat_path, ddy_path, epw_path) ==
    IF stat_path
    THEN Ended("tuple", IF stat_day THEN "stat" ELSE "None",
               IF stat_optical THEN "stat" ELSE "clear_sky")
    ELSE IF ddy_path /\ ddy_days # 0
    THEN Ended("tuple", "ddy", "clear_sky")
    ELSE IF epw_path
    THEN Ended("UnboundLocalError", "None", "None")   \* stat_obj at line 389
    ELSE Ended("tuple", "None", "None")

\* lines 339-366: the files the text stands for, as whether stat_path,
\* ddy_path and epw_path are set; r is the return that ends the call here
PathsOf(text) ==
    CASE text = "" -> [r |-> Ended("tuple", "None", "None")]
      [] text = "http" -> [r |-> Ended("go", "", ""), stat |-> TRUE, ddy |-> TRUE,
                           epw |-> TRUE, sticky |-> "basename"]
      [] text = "name" ->
            IF epw_there
            THEN [r |-> Ended("go", "", ""), stat |-> TRUE, ddy |-> TRUE,
                  epw |-> TRUE, sticky |-> "name"]
            ELSE [r |-> Ended("None", "None", "None")]       \* the bare return
      [] text = "file.ddy" -> [r |-> Ended("go", "", ""), stat |-> FALSE, ddy |-> TRUE,
                               epw |-> FALSE, sticky |-> lbt_url]
      [] text = "file.epw" -> [r |-> Ended("go", "", ""), stat |-> FALSE, ddy |-> FALSE,
                               epw |-> TRUE, sticky |-> lbt_url]
      [] text = "file.stat" -> [r |-> Ended("go", "", ""), stat |-> TRUE, ddy |-> FALSE,
                                epw |-> FALSE, sticky |-> lbt_url]
      [] OTHER -> [r |-> Ended("tuple", "None", "None")]

\* the user gives a text (GetResult.String) or nothing (GetResult.Nothing)
GetString(text) ==
    /\ fn = "dday"
    /\ dd_ret.kind = "prompt"
    /\ url_path' = text
    /\ LET p == PathsOf(text)
       IN  IF p.r.kind = "go"
           THEN /\ lbt_url' = p.sticky
                /\ dd_ret' = BestDesignDay(p.stat, p.ddy, p.epw)
           ELSE /\ dd_ret' = p.r
                /\ UNCHANGED lbt_url
    /\ UNCHANGED <<epw_there, stat_day, stat_optical, ddy_days, opt_clicks,
                   othersDday>>

\* GetResult.Option: the option value is taken and the user is asked again
GetOption ==
    /\ fn = "dday"
    /\ dd_ret.kind = "prompt"
    /\ opt_clicks < MaxClicks
    /\ opt_clicks' = opt_clicks + 1
    /\ UNCHANGED <<url_path, epw_there, stat_day, stat_optical, ddy_days,
                   lbt_url, dd_ret, othersDday>>

\* GetResult.Cancel
GetCancel ==
    /\ fn = "dday"
    /\ dd_ret.kind = "prompt"
    /\ dd_ret' = Ended("tuple", "None", "None")
    /\ UNCHANGED <<url_path, epw_there, stat_day, stat_optical, ddy_days,
                   opt_clicks, lbt_url, othersDday>>

UrlTexts == {"", "http", "name", "file.ddy", "file.epw", "file.stat", "file.txt"}

InitDesignDay ==
    /\ fn = "dday"
    /\ url_path = "unset"
    /\ epw_there \in BOOLEAN
    /\ stat_day \in BOOLEAN
    /\ stat_optical \in BOOLEAN
    /\ ddy_days \in 0..MaxDays
    /\ opt_clicks = 0
    /\ lbt_url = "unset"
    /\ dd_ret = Ended("prompt", "None", "None")
    /\ groups = << >>
    /\ wpos = << >>
    /\ cpu_count = 0
    /\ py2 = FALSE
    /\ OnlyDesignDay

NextDesignDay ==
    \/ \E text \in UrlTexts : GetString(text)
    \/ GetOption
    \/ GetCancel

SpecDesignDay == InitDesignDay /\ [][NextDesignDay]_vars

\* C16: retrieve_cooling_design_day_input returns a tuple of two values
\* (design_day, wea) on every path, cancel, empty input, an unrecognised
\* file extension and a name with no weather file included.
C16_AlwaysTwoValues ==
    dd_ret.kind # "prompt" => dd_ret.kind = "tuple"

\* C17: the design day is picked by falling back through the sources: the
\* STAT file first; if it has no design day, the DDY; if the DDY has no
\* clear best design day, the EPW data; and a path to an existing DDY, STAT
\* or EPW file gives the design day taken from that file.
C17_FallsBackInOrder ==
    /\ (url_path \in {"http", "name"} /\ dd_ret.kind \notin {"prompt", "None"}) =>
          /\ dd_ret.kind = "tuple"
          /\ dd_ret.design_day = IF stat_day THEN "stat"
                                 ELSE IF ddy_days # 0 THEN "ddy" ELSE "epw"
    /\ (url_path = "file.stat" /\ stat_day) =>
          dd_ret.kind = "tuple" /\ dd_ret.design_day = "stat"
    /\ (url_path = "file.ddy" /\ ddy_days # 0) =>
          dd_ret.kind = "tuple" /\ dd_ret.design_day = "ddy"
    /\ url_path = "file.epw" =>
          dd_ret.kind = "tuple" /\ dd_ret.design_day = "epw"

-----------------------------------------------------------------------------
(* download.py: extract_project_info.  The ProjectInfo is told by what its *)
(* keys hold: weather_urls is "absent", "empty", or the kind of its first  *)
(* URL; location is "absent", "null", "zeros" (latitude, longitude and     *)
(* elevation all 0) or "given"; ashrae_climate_zone is "absent", "null" or *)
(* "given".  What is returned tells where each value was taken from.       *)

Returned(kind, location, zone, folder) ==
    [kind |-> kind, location |-> location, zone |-> zone, folder |-> folder]

\* lines 95-98: the folder name taken from the URL
FolderName(weather_url) ==
    IF weather_url = "zip" THEN "zip_name"        \* weather_url.split('/')[-1][:-4]
    ELSE "parent_name"                            \* weather_url.split('/')[-2]

extract_project_info(info) ==
    IF info.weather_urls \in {"absent", "empty"}
    THEN Returned("str", info.location, info.ashrae_climate_zone, "")   \* line 90
    ELSE LET location == IF info.location \in {"absent", "null", "zeros"}
                         THEN "epw" ELSE info.location
             zone == IF info.ashrae_climate_zone \in {"absent", "null"}
                     THEN IF stat_there /\ stat_zone THEN "stat" ELSE "epw"
                     ELSE info.ashrae_climate_zone
         IN  Returned("tuple", location, zone, FolderName(info.weather_urls))

ExtractProjectInfo ==
    /\ fn = "pinfo"
    /\ pi_ret.kind = "called"
    /\ pi_ret' = extract_project_info(project_info)
    /\ downloaded' = (project_info.weather_urls \notin {"absent", "empty"}
                        /\ ~epw_cached)             \* lines 100-104
    /\ UNCHANGED <<project_info, epw_cached, stat_there, stat_zone, othersPinfo>>

ProjectInfos ==
    [weather_urls : {"absent", "empty", "zip", "doe"},
     location : {"absent", "null", "zeros", "given"},
     ashrae_climate_zone : {"absent", "null", "given"}]

InitProjectInfo ==
    /\ fn = "pinfo"
    /\ project_info \in ProjectInfos
    /\ epw_cached \in BOOLEAN
    /\ stat_there \in BOOLEAN
    /\ stat_zone \in IF stat_there THEN BOOLEAN ELSE {FALSE}
    /\ downloaded = FALSE
    /\ pi_ret = Returned("called", "", "", "")
    /\ groups = << >>
    /\ wpos = << >>
    /\ cpu_count = 0
    /\ py2 = FALSE
    /\ OnlyProjectInfo

NextProjectInfo == ExtractProjectInfo

SpecProjectInfo == InitProjectInfo /\ [][NextProjectInfo]_vars

\* C18: extract_project_info returns a tuple of two values
\* (project_info_json, epw_path) for every input JSON, a ProjectInfo with
\* no 'weather_urls' key or an empty 'weather_urls' list included.
C18_AlwaysTwoValues ==
    pi_ret.kind # "called" => pi_ret.kind = "tuple"

-----------------------------------------------------------------------------
(* pythonpath.py: create_python_package_dir, and what the commands         *)
(* setup-user-environment and set-python-search of cli/__init__.py do with *)
(* what it returns.  A Python value that may be None is [none, path].      *)

PyNone == [none |-> TRUE, path |-> ""]

PyStr(path) == [none |-> FALSE, path |-> path]

\* lines 35-42: py_path
PyPath ==
    IF os_name = "nt" THEN "python/Lib/site-packages"
    ELSE IF py37_there THEN "python/lib/python3.7/site-packages"
    ELSE "python/lib/python3.10/site-packages"

\* lines 43-45: os.makedirs returns None
create_python_package_dir ==
    IF ~dir_there THEN PyNone ELSE PyStr(PyPath)

\* if python_package_dir is None: python_package_dir = create_python_package_dir()
CreatePythonPackageDir ==
    /\ fn = "pkgdir"
    /\ cli_out = "start"
    /\ cli_package_dir.none
    /\ pkg_ret.path = "unset"
    /\ pkg_ret' = create_python_package_dir
    /\ dir_there' = TRUE                           \* os.makedirs(py_path)
    /\ UNCHANGED <<os_name, py37_there, command, cli_package_dir,
                   settings_count, cli_out, othersPkgdir>>

\* the directory the command goes on with
DirOfCommand == IF cli_package_dir.none THEN pkg_ret ELSE cli_package_dir

\* the rest of the command: iron_python_search_path(python_package_dir, ...)
\* raises for None when it comes to use it
SetSearchPath ==
    /\ fn = "pkgdir"
    /\ cli_out = "start"
    /\ cli_package_dir.none => pkg_ret.path # "unset"
    /\ cli_out' =
          IF DirOfCommand.none
          THEN IF command = "setup-user-environment"
               THEN "skipped"                      \* if python_package_dir is not None
               ELSE IF os_name = "nt" /\ settings_count = 0
               THEN "set"                          \* no settings file to patch
               ELSE "failed"                       \* sys.exit(1)
          ELSE "set"
    /\ UNCHANGED <<os_name, py37_there, dir_there, command, cli_package_dir,
                   settings_count, pkg_ret, othersPkgdir>>

InitPackageDir ==
    /\ fn = "pkgdir"
    /\ os_name \in {"nt", "posix"}
    /\ py37_there \in IF os_name = "nt" THEN {FALSE} ELSE BOOLEAN
    /\ dir_there \in BOOLEAN
    /\ command \in {"setup-user-environment", "set-python-search"}
    /\ cli_package_dir \in {PyNone, PyStr("D:/lib")}
    /\ settings_count \in 0..MaxSettings
    /\ pkg_ret = [none |-> TRUE, path |-> "unset"]
    /\ cli_out = "start"
    /\ groups = << >>
    /\ wpos = << >>
    /\ cpu_count = 0
    /\ py2 = FALSE
    /\ OnlyPackageDir

NextPackageDir ==
    \/ CreatePythonPackageDir
    \/ SetSearchPath

SpecPackageDir == InitPackageDir /\ [][NextPackageDir]_vars

\* C19: create_python_package_dir returns the path of the site-packages
\* folder in every case: when the folder exists, and when it was not found
\* and the call had to create it.
C19_ReturnsThePath ==
    pkg_ret.path # "unset" => (~pkg_ret.none /\ pkg_ret.path = PyPath)

-----------------------------------------------------------------------------
(* fromgeometry.py: from_face3d.  CreatePlanarBreps is the host's: it      *)
(* gives null when it makes no brep, and null[0] is the TypeError the code *)
(* catches.  One action per call of CreatePlanarBreps, one per hole, one   *)
(* for the return of the brep.                                             *)

\* rg.Brep.CreatePlanarBreps(segs, tol)[0] does not raise
CreatePlanarBreps(tol) == IF tol = "tolerance" THEN first_ok ELSE loose_ok

\* where the function goes after an attempt, with no second attempt
AfterAttempt_no_retry(tol, ok) ==
    IF ok THEN "holes" ELSE "returned"

\* where the function goes after an attempt at tol: on to the holes, to
\* the second attempt (line 130), or out with None (lines 134-135)
AfterAttempt(tol, ok) ==
    IF ok THEN "holes"
    ELSE IF tol = "tolerance" THEN "retry"
    ELSE "returned"

TryCreate ==
    /\ fn = "brep"
    /\ face_pc \in {"start", "retry"}
    /\ LET tol == IF face_pc = "start" THEN "tolerance" ELSE "1e6"
       IN  /\ attempts' = Append(attempts, tol)
           /\ face_pc' = AfterAttempt(tol, CreatePlanarBreps(tol))
    /\ face_ret' = IF face_pc' = "returned" THEN "None" ELSE face_ret
    /\ UNCHANGED <<n_holes, first_ok, loose_ok, loops_added, othersBrep>>

\* brep.Loops.AddPlanarFaceLoop(0, rg.BrepLoopType.Inner, trim_crvs)
AddHoleLoop ==
    /\ fn = "brep"
    /\ face_pc = "holes"
    /\ loops_added < n_holes
    /\ loops_added' = loops_added + 1
    /\ UNCHANGED <<n_holes, first_ok, loose_ok, face_pc, attempts,
                   face_ret, othersBrep>>

\* return brep
ReturnBrep ==
    /\ fn = "brep"
    /\ face_pc = "holes"
    /\ loops_added = n_holes
    /\ face_pc' = "returned"
    /\ face_ret' = "brep"
    /\ UNCHANGED <<n_holes, first_ok, loose_ok, attempts, loops_added,
                   othersBrep>>

InitFace ==
    /\ fn = "brep"
    /\ n_holes \in 0..MaxHoles
    /\ first_ok \in BOOLEAN
    /\ loose_ok \in BOOLEAN
    /\ face_pc = "start"
    /\ attempts = << >>
    /\ loops_added = 0
    /\ face_ret = "unset"
    /\ groups = << >>
    /\ wpos = << >>
    /\ cpu_count = 0
    /\ py2 = FALSE
    /\ OnlyFace

NextFace ==
    \/ TryCreate
    \/ AddHoleLoop
    \/ ReturnBrep

SpecFace == InitFace /\ [][NextFace]_vars

\* C20: from_face3d attempts the planar brep at the model tolerance first;
\* only if that attempt fails does it retry, exactly once, at the looser
\* tolerance; if the retry fails as well it returns None and does not
\* raise; there is never a third attempt.
C20_RetryOnceThenNone ==
    /\ Len(attempts) <= 2
    /\ Len(attempts) >= 1 => attempts[1] = "tolerance"
    /\ Len(attempts) = 2 => (attempts[2] = "1e6" /\ ~first_ok)
    /\ face_pc \in {"holes", "returned"} =>
          attempts = IF first_ok THEN <<"tolerance">> ELSE <<"tolerance", "1e6">>
    /\ face_pc = "returned" =>
          face_ret = IF first_ok \/ loose_ok THEN "brep" ELSE "None"
    /\ face_pc # "returned" => face_ret = "unset"

\* C20 witness: both attempts failed and the call returned None
C20_Witness ==
    /\ face_pc = "returned"
    /\ face_ret = "None"
    /\ attempts = <<"tolerance", "1e6">>

-----------------------------------------------------------------------------
(* pythonpath.py: script_editor_search_path.  A text is the sequence of    *)
(* its characters; "r" stands for the text 'revit' and "p" for             *)
(* 'pollination_', so <<"p", "r">> is 'pollination_revit'.  A .pth file is *)
(* its lines without their newlines, and whether the last line has one.    *)
(* One action per call.                                                    *)

\* text.replace('\\', '/')
Slashed(text) == [k \in 1..Len(text) |-> IF text[k] = "\\" THEN "/" ELSE text[k]]

\* needle in text
In(needle, text) ==
    \E off \in 0..(Len(text) - Len(needle)) :
        \A k \in 1..Len(needle) : text[off + k] = needle[k]

PthFile(exists, lines, nl) == [exists |-> exists, lines |-> lines, nl |-> nl]

\* the filter of the lines with no test for python_dir
KeepLine_any(line, python_dir) ==
    ~In(<<"p", "r">>, line)

\* lines 311-315: the line is put into file_contents
KeepLine(line, python_dir) ==
    /\ ~In(<<"p", "r">>, line)                     \* 'pollination_revit' in line
    /\ ~In(Slashed(python_dir), Slashed(line))

\* lines 307-318: the file after it was read, filtered and written
PatchPth(file, python_dir) ==
    LET Keep(line) == KeepLine(line, python_dir)
        old == IF file.exists THEN file.lines ELSE << >>
        file_contents == SelectSeq(old, Keep)
        last_kept == Len(old) > 0 /\ Keep(old[Len(old)])
    IN  PthFile(TRUE, <<python_dir>> \o file_contents,
                IF last_kept THEN file.nl ELSE TRUE)

\* lines 284-300: pth_files
PthFilesOf(files, prog) ==
    (IF files["python-2.pth"].exists THEN <<"python-2.pth", "python-3.pth">>
     ELSE IF prog # "writable" THEN <<"python-2.pth", "python-3.pth">>
     ELSE << >>)
      \o (IF prog = "writable" THEN <<"python-2_lbt.pth", "python-3_lbt.pth">>
          ELSE << >>)

Range(seq) == {seq[k] : k \in 1..Len(seq)}

ScriptEditorSearchPath ==
    /\ fn = "pth"
    /\ pth_runs < MaxPthRuns
    /\ pth_runs' = pth_runs + 1
    /\ prev_pth' = pth
    /\ IF In(<<"r">>, pth_dir)                     \* 'revit' in python_dir.lower()
       THEN reported' = << >> /\ UNCHANGED pth
       ELSE IF ~rhino8                             \* no ver with float(ver) >= 8
       THEN reported' = << >> /\ UNCHANGED pth
       ELSE /\ reported' = PthFilesOf(pth, prog_folder)
            /\ pth' = [f \in DOMAIN pth |->
                          IF f \in Range(reported') THEN PatchPth(pth[f], pth_dir)
                          ELSE pth[f]]
    /\ UNCHANGED <<pth_dir, rhino8, prog_folder, othersPth>>

PythonDirs ==
    {<<"a">>, <<"a", "/", "b">>, <<"a", "\\", "b">>, <<"r", "/", "a">>}

\* the other way round of each slash
Flipped(text) ==
    [k \in 1..Len(text) |->
        IF text[k] = "\\" THEN "/" ELSE IF text[k] = "/" THEN "\\" ELSE text[k]]

\* the lines a .pth file may hold when python_dir is d: d itself, d with
\* the other slashes, a folder below d, the text before the last character
\* of d, another folder, and two lines of the Revit plugin
LinesFor(d) ==
    {d, Flipped(d), d \o <<"/", "b">>, SubSeq(d, 1, Len(d) - 1), <<"b">>,
     <<"p", "r">>, <<"p", "r", "/", "a">>}

PthNames == {"python-2.pth", "python-3.pth", "python-2_lbt.pth", "python-3_lbt.pth"}

InitPth ==
    /\ fn = "pth"
    /\ pth_dir \in PythonDirs
    /\ rhino8 \in BOOLEAN
    /\ prog_folder \in {"none", "readonly", "writable"}
    /\ \E lines \in UNION {[1..k -> LinesFor(pth_dir)] : k \in 0..MaxLines} :
         \E nl \in IF Len(lines) = 0 THEN {TRUE} ELSE BOOLEAN :
           \E rh2 \in BOOLEAN : \E rh3 \in BOOLEAN : \E data \in BOOLEAN :
              pth = [f \in PthNames |->
                       LET there == CASE f = "python-2.pth" -> rh2
                                      [] f = "python-3.pth" -> rh3
                                      [] OTHER -> data
                       IN  IF there THEN PthFile(TRUE, lines, nl)
                           ELSE PthFile(FALSE, << >>, TRUE)]
    /\ prev_pth = pth
    /\ reported = << >>
    /\ pth_runs = 0
    /\ groups = << >>
    /\ wpos = << >>
    /\ cpu_count = 0
    /\ py2 = FALSE
    /\ OnlyPth

NextPth == ScriptEditorSearchPath

SpecPth == InitPth /\ [][NextPth]_vars

\* the lines of the file that name python_dir, whatever the slashes
LinesOfDir(file) ==
    {k \in 1..Len(file.lines) : In(Slashed(pth_dir), Slashed(file.lines[k]))}

\* C21: after script_editor_search_path(python_dir) has run once or more,
\* every .pth file it reports holds exactly one line for python_dir, and
\* that line is the first of the file; a further run leaves the files as
\* they are.
C21_PthPatchIdempotent ==
    pth_runs >= 1 =>
        /\ \A f \in Range(reported) :
              /\ pth[f].exists
              /\ Len(pth[f].lines) >= 1
              /\ pth[f].lines[1] = pth_dir
              /\ LinesOfDir(pth[f]) = {1}
        /\ pth_runs >= 2 => pth = prev_pth

\* C21 witness: the call ran on a file that held another folder on its
\* first line and python_dir, written with any slashes, on its second
C21_Witness ==
    /\ pth_runs = 1
    /\ \E f \in Range(reported) :
          /\ prev_pth[f].exists
          /\ Len(prev_pth[f].lines) = 2
          /\ prev_pth[f].lines[1] = <<"b">>
          /\ In(Slashed(pth_dir), Slashed(prev_pth[f].lines[2]))

-----------------------------------------------------------------------------
(* fromgeometry.py: from_polyface3d, from_face3ds_to_joined_brep and       *)
(* from_face3d_to_solid, the callers of from_face3d in its module.  A face *)
(* is what the host makes of its boundary at the two tolerances.  What the *)
(* host does with a null among the breps it is to join is the host's: it   *)
(* raises, or it joins the others.  One action per face translated, one    *)
(* for the host call and what follows it.                                  *)

\* from_face3d(face), lines 125-140: a brep, or None after two failures
from_face3d(face) ==
    IF AfterAttempt("tolerance", face.first_ok) = "holes" THEN "brep"
    ELSE IF AfterAttempt("1e6", face.loose_ok) = "holes" THEN "brep"
    ELSE "None"

HostCall(name, args) == [name |-> name, args |-> args]

\* the breps among the translated faces
BrepsOf(faces) == {k \in DOMAIN faces : faces[k] = "brep"}

\* from_face3d(face) for the next face: lines 145, 228 and 235
TranslateFace ==
    /\ fn = "join"
    /\ join_pc = "translate"
    /\ Len(rh_faces) < Len(in_faces)
    /\ rh_faces' = Append(rh_faces, from_face3d(in_faces[Len(rh_faces) + 1]))
    /\ UNCHANGED <<caller, in_faces, join_pc, host_call, none_attr, join_ret,
                   othersJoin>>

\* rg.Brep.JoinBreps(rh_faces, tolerance), lines 146 and 235, and the
\* return of from_polyface3d (lines 147-148) or from_face3ds_to_joined_brep
JoinBreps ==
    /\ fn = "join"
    /\ caller \in {"from_polyface3d", "from_face3ds_to_joined_brep"}
    /\ join_pc = "translate"
    /\ Len(rh_faces) = Len(in_faces)
    /\ host_call' = HostCall("JoinBreps", rh_faces)
    /\ \E raises \in (IF BrepsOf(rh_faces) = DOMAIN rh_faces
                      THEN {FALSE} ELSE BOOLEAN) :
       \E null \in BOOLEAN :
       \E count \in 0..Cardinality(BrepsOf(rh_faces)) :
          IF raises \/ (null /\ caller = "from_polyface3d")   \* len(None)
          THEN /\ join_pc' = "raised"
               /\ join_ret' = join_ret
          ELSE /\ join_pc' = "returned"
               /\ join_ret' =
                     IF caller = "from_polyface3d"
                     THEN (IF count = 1 THEN "brep" ELSE "None")
                     ELSE (IF null THEN "None" ELSE "breps")
    /\ UNCHANGED <<caller, in_faces, rh_faces, none_attr, othersJoin>>

\* rg.Brep.CreateFromOffsetFace(srf_brep.Faces[0], ...), lines 229-230
CreateFromOffsetFace ==
    /\ fn = "join"
    /\ caller = "from_face3d_to_solid"
    /\ join_pc = "translate"
    /\ Len(rh_faces) = Len(in_faces)
    /\ IF rh_faces[1] = "None"
       THEN /\ none_attr' = TRUE                  \* None.Faces
            /\ join_pc' = "raised"
            /\ UNCHANGED <<host_call, join_ret>>
       ELSE /\ host_call' = HostCall("CreateFromOffsetFace", rh_faces)
            /\ join_pc' = "returned"
            /\ \E made \in BOOLEAN :
                  join_ret' = IF made THEN "brep" ELSE "None"
            /\ UNCHANGED none_attr
    /\ UNCHANGED <<caller, in_faces, rh_faces, othersJoin>>

\* the faces a caller can be given
FaceLists(lens) ==
    UNION {[1..k -> [first_ok : BOOLEAN, loose_ok : BOOLEAN]] : k \in lens}

InitJoin ==
    /\ fn = "join"
    /\ caller \in {"from_polyface3d", "from_face3ds_to_joined_brep",
                   "from_face3d_to_solid"}
    /\ in_faces \in IF caller = "from_face3d_to_solid" THEN FaceLists({1})
                    ELSE FaceLists(0..MaxJoinFaces)
    /\ rh_faces = << >>
    /\ join_pc = "translate"
    /\ host_call = HostCall("none", << >>)
    /\ none_attr = FALSE
    /\ join_ret = "unset"
    /\ groups = << >>
    /\ wpos = << >>
    /\ cpu_count = 0
    /\ py2 = FALSE
    /\ OnlyJoin

NextJoin ==
    \/ TranslateFace
    \/ JoinBreps
    \/ CreateFromOffsetFace

SpecJoin == InitJoin /\ [][NextJoin]_vars

\* C22: the None that from_face3d returns for a zero-area face is never
\* passed on to a host geometry call by from_polyface3d,
\* from_face3ds_to_joined_brep or from_face3d_to_solid, and none of them
\* reads an attribute of it.
C22_NoneNeverUsed ==
    /\ ~none_attr
    /\ \A k \in DOMAIN host_call.args : host_call.args[k] # "None"

=============================================================================
